---- MODULE Spec2Model ----
(***************************************************************************)
(* Model of the k8s-llm-monitor server-side data plane:                    *)
(*   - metrics.Manager: Start/Stop, Collect, the read APIs and             *)
(*     UpdateUAVReport                          src/unnamed/part_006       *)
(*   - uavReportHandler                         src/unnamed/part_000       *)
(*   - k8s.Client.UpsertUAVMetric               src/internal/k8s/client.go *)
(*   - scheduler.Controller.Run / reconcile     src/internal/scheduler     *)
(*                                                                         *)
(* Every goroutine is a process with a program counter; a step of the      *)
(* model is one atomic region of the code (a critical section, a channel   *)
(* operation, one API-server call).  A panic ends the whole process.       *)
(***************************************************************************)
EXTENDS Integers, Sequences, FiniteSets, TLC

\* ------------------------------------------------------------------ bounds

\* time.Now() is modelled by a logical clock that advances by one whenever a
\* Collect cycle starts (so cycles have distinct start times); once the clock
\* reaches MaxTime no further cycle starts.
MaxTime == 5

\* ------------------------------------------------------------- vocabulary

\* names are sequences of characters (sanitizeResourceName works on them)
N1 == <<"n", "1">>
N2 == <<"n", "2">>
Nodes == {N1, N2}
EmptyName == <<>>

Pods == {"default/p1"}

\* goroutines that call Manager.Start
Starters == {"s1", "s2"}
\* a goroutine that calls the exported Manager.Collect directly
ManualCollectors == {"m1"}
Collectors == Starters \cup ManualCollectors

\* requests that push a uav report (HTTP requests, or direct callers of
\* UpdateUAVReport)
Reqs == {"r1", "r2"}

Sources == {"node", "pod", "network", "uav"}

Nil == "nil"
Err == "error"
ZeroTime == 0
NoEntry == "absent"

\* what the metric sources return when they succeed
NodeResults == {{N1, N2}}
PodResults == {{"default/p1"}}
NetworkResults == {{"p1->p2"}}
\* CollectUAVMetrics returns raw telemetry keyed by node name
UAVResults == {{N1}}
\* the raw telemetry state an agent answers
RawState == [isNil |-> FALSE, battery |-> 50]

VARIABLES
    \* Manager configuration
    interval,          \* m.interval (0 or a positive period)
    enabled,           \* the sources NewManager installed (non-nil)
    \* Manager control
    running,           \* m.running
    stopChan,          \* m.stopChan: "open" or "closed"
    ctxDone,           \* the context handed to Start is cancelled
    pc,                \* position of each Start call
    startRet,          \* what the last Start call of the goroutine returned
    tickerC,           \* ticker.C of the Start call holds a tick
    stopRet,           \* what the last Stop call returned
    \* Manager cache
    snapshot,          \* *m.snapshot (the object the pointer refers to)
    uavSnapshot,       \* m.uavSnapshot
    uavLastHeartbeat,  \* m.uavLastHeartbeat
    snapshotMutex,     \* holder of the write lock, or "free"
    \* process-wide
    crashed,           \* a goroutine panicked: the process is gone
    now,               \* logical clock
    \* Collect frames and their history
    col,               \* locals of the Collect call of each collector
    hist,              \* outcome of the finished Collect calls
    \* callers of the read APIs
    lastRead,          \* what the last read API call returned
    \* ingestion
    deps,              \* which collaborators the HTTP handler was given
    rq,                \* the ingestion requests (their locals and position)
    crd,               \* the API server's uavmetrics objects, by name
    \* scheduler
    sreq,              \* the API server's schedulingrequests objects, by name
    rpc,               \* position of Controller.Run
    ritems,            \* reconcile: the listed requests
    ridx,              \* reconcile: index of the next request to process
    ruavs,             \* reconcile: the listed uav resources
    rtick,             \* the controller's ticker.C holds a tick
    rctxDone,          \* the context handed to Run is cancelled
    rpass,             \* outcome of the passes: the items that failed in
                       \* this pass, its result, the result of the pass before
    \* watch fabric
    wpc,               \* position of each stream loop
    wchan,             \* the stream's result channel: "none", "open", "closed"
    wevent,            \* the result channel holds an event
    wseen,             \* an event of the current stream reached the handler
    wctxDone,          \* the context handed to the watchers is cancelled
    wstopCh,           \* Watcher.stopCh is closed
    wfatal,            \* the runtime ended the process (fatal error, panic)
    wreg,              \* cw.crdWatchers: the loop whose stream is stored for
                       \* each custom kind, or "none"
    wdef,              \* the definition of each custom kind in the cluster:
                       \* "established", "pending" or "absent"
    \* calls of functions checked on their own
    fin,               \* the arguments of the call
    fout               \* what the call has returned or done so far

cfgVars == <<interval, enabled>>
lifeVars == <<running, stopChan, ctxDone, pc, startRet, tickerC, stopRet>>
cacheVars == <<snapshot, uavSnapshot, uavLastHeartbeat>>
ingestVars == <<deps, rq, crd>>

schedVars == <<sreq, rpc, ritems, ridx, ruavs, rtick, rctxDone, rpass>>
watchVars == <<wpc, wchan, wevent, wseen, wctxDone, wstopCh, wfatal, wreg, wdef>>
callVars == <<fin, fout>>
managerVars == <<cfgVars, lifeVars, cacheVars, snapshotMutex, crashed, now, col,
                 hist, lastRead>>

\* what the Manager's Start, Stop, Collect and read APIs never touch
notManager == <<ingestVars, schedVars, watchVars, callVars>>
\* what neither the Manager nor the ingestion path touches
notIngest == <<schedVars, watchVars, callVars>>

\* what the watch fabric never touches
notWatch == <<managerVars, ingestVars, schedVars, callVars>>

vars == <<managerVars, ingestVars, schedVars, watchVars, callVars>>

\* ------------------------------------------------------------ data types

\* &MetricsSnapshot{Timestamp: t, ..., ClusterMetrics: &ClusterMetrics{Timestamp: clusterT}}
NewSnapshot(t, clusterT) ==
    [Timestamp |-> t,
     NodeMetrics |-> {},
     PodMetrics |-> {},
     NetworkMetrics |-> {},
     ClusterMetrics |-> [Timestamp |-> clusterT, TotalNodes |-> 0, TotalPods |-> 0]]

\* a Go map is a function whose domain is the set of its keys
EmptyMap == [n \in {} |-> NoEntry]

\* a map variable that may be nil (var uavMetrics map[string]interface{})
NilMap == [isNil |-> TRUE, m |-> EmptyMap]
MapOf(f) == [isNil |-> FALSE, m |-> f]

\* the locals of a Collect call that is not in progress
IdleFrame ==
    [pc |-> "idle", snap |-> NewSnapshot(ZeroTime, ZeroTime), pending |-> {},
     nodeErr |-> FALSE, podErr |-> FALSE, networkErr |-> FALSE,
     uavMetrics |-> NilMap,
     nodeRes |-> {}, podRes |-> {}, networkRes |-> {}]

\* a Collect that publishes without deriving the rollup
calculateClusterMetricsSkipped(s) == s

\* calculateClusterMetrics: the rollup counts of a snapshot
calculateClusterMetrics(s) ==
    [s EXCEPT !.ClusterMetrics.TotalNodes = Cardinality(s.NodeMetrics),
              !.ClusterMetrics.TotalPods = Cardinality(s.PodMetrics)]

\* the entry Collect wraps around one raw telemetry state (it has no uav_id
\* key, which reads as the empty string)
PullEntry(n, data, t) ==
    [node_name |-> n, uav_id |-> <<>>, status |-> "active", source |-> "pull",
     timestamp |-> t, last_heartbeat |-> t, state |-> data]

\* the data of a snapshot, without its timestamps
SnapshotData(s) ==
    <<s.NodeMetrics, s.PodMetrics, s.NetworkMetrics,
      s.ClusterMetrics.TotalNodes, s.ClusterMetrics.TotalPods>>

\* a telemetry state (*models.UAVState, possibly nil); of its content the
\* model keeps the battery's remaining percent
NilState == [isNil |-> TRUE, battery |-> 0]
StateOf(b) == [isNil |-> FALSE, battery |-> b]

\* a uavmetrics object: spec, status, labels and the resourceVersion
NoObject ==
    [spec |-> [node_name |-> EmptyName, uav_id |-> <<>>, state |-> NilState],
     status |-> [last_update |-> ZeroTime, collection_status |-> ""],
     labels |-> EmptyMap, rv |-> 0]

NoRead ==
    [api |-> "none", node |-> EmptyName, pod |-> "", found |-> FALSE,
     snap |-> NewSnapshot(ZeroTime, ZeroTime), uav |-> EmptyMap, alias |-> FALSE]

IdleReq ==
    [pc |-> "idle", handler |-> FALSE,
     report |-> [NodeName |-> EmptyName, UAVID |-> <<>>, Source |-> "", Status |-> "",
                 Timestamp |-> ZeroTime, State |-> NilState],
     raw |-> [NodeName |-> EmptyName, UAVID |-> <<>>, Source |-> "", Status |-> "",
              Timestamp |-> ZeroTime, State |-> NilState],
     reportTime |-> ZeroTime, existing |-> NoObject, crdStatus |-> "none"]

\* ------------------------------------------------------------------- Init

\* the state NewManager leaves behind, for a configuration that enables the
\* sources en and sets a collection period drawn from periods
InitManager(en, periods) ==
    /\ interval \in periods
    /\ enabled = en
    /\ running = FALSE
    /\ stopChan = "open"
    /\ ctxDone = FALSE
    /\ pc = [s \in Starters |-> "idle"]
    /\ startRet = [s \in Starters |-> "none"]
    /\ tickerC = [s \in Starters |-> FALSE]
    /\ stopRet = "none"
    /\ snapshot = NewSnapshot(1, ZeroTime)
    /\ uavSnapshot = EmptyMap
    /\ uavLastHeartbeat = EmptyMap
    /\ snapshotMutex = "free"
    /\ crashed = FALSE
    /\ now = 2
    /\ col = [c \in Collectors |-> IdleFrame]
    /\ hist = [last |-> "none", good |-> FALSE,
               goodSnap |-> NewSnapshot(ZeroTime, ZeroTime)]
    /\ lastRead = NoRead

\* no ingestion request in progress; the uavmetrics store holds store
InitIngest(withManager, withK8s, store) ==
    /\ deps = [manager |-> withManager, k8s |-> withK8s]
    /\ rq = [r \in Reqs |-> IdleReq]
    /\ crd = store

\* a JSON number as the client decodes it: a literal without fraction or
\* exponent becomes an int64, every other literal a float64
Int64(v) == [type |-> "int64", v |-> v]
Float64(v) == [type |-> "float64", v |-> v]

\* a schedulingrequests object (minBattery is a decoded JSON number)
Request(hasSpec, name, namespace, minBattery, preferred) ==
    [hasSpec |-> hasSpec,
     spec |-> [workloadName |-> name, workloadNamespace |-> namespace,
               minBatteryPercent |-> minBattery, preferredNodes |-> preferred],
     status |-> [phase |-> "", assignedNode |-> EmptyName, assignedUAV |-> <<>>,
                 score |-> 0, message |-> "", lastUpdated |-> ZeroTime]]

\* the controller about to run its first pass over the requests reqs
\* the stream loops: one core stream (pods of one namespace) and the instance
\* streams of two custom kinds
CoreStreams == {"pods"}
CustomStreams == {"k1", "k2", "k1b"}
\* the custom kind (group, resource) an instance loop watches: k1 and k2 are
\* the loops startup discovery spawns, k1b the loop the definition watch
\* spawns for the first kind when it delivers Added
CustomKinds == {"k1", "k2"}
KindOf(s) == IF s = "k1b" THEN "k1" ELSE s
WStreams == CoreStreams \cup CustomStreams

\* Watcher.Start / CRDWatcher.Start: the loops are spawned, no stream is open
InitWatcher ==
    /\ wpc = [s \in WStreams |-> IF s = "k1b" THEN "unspawned"
                               ELSE IF s \in CustomStreams THEN "start" ELSE "loop"]
    /\ wchan = [s \in WStreams |-> "none"]
    /\ wevent = [s \in WStreams |-> FALSE]
    /\ wseen = [s \in WStreams |-> FALSE]
    /\ wctxDone = FALSE
    /\ wstopCh = FALSE
    /\ wfatal = FALSE
    /\ wreg = [k \in CustomKinds |-> "none"]
    /\ wdef = [k \in CustomKinds |-> "established"]

\* no function is being checked on its own
NoCall == "none"
InitCalls ==
    /\ fin = NoCall
    /\ fout = NoCall

InitScheduler(reqs) ==
    /\ sreq = reqs
    /\ rpc = "reconcile"
    /\ ritems = <<>>
    /\ ridx = 1
    /\ ruavs = <<>>
    /\ rtick = FALSE
    /\ rctxDone = FALSE
    /\ rpass = [failed |-> {}, last |-> "running", prev |-> "none"]

\* ---------------------------------------------------------------- Collect

\* Collect, lines 195-205: take the start time and allocate the new snapshot
CollectBegin(c) ==
    /\ now < MaxTime
    /\ col' = [col EXCEPT ![c] =
                 [IdleFrame EXCEPT !.pc = "sources",
                                   !.snap = NewSnapshot(now, now),
                                   !.pending = enabled]]
    /\ now' = now + 1

\* a Collect that keeps the cached part when its source fails
OnSourceErrorKeepLast(fresh, cached) == cached

\* what a source that returned an error leaves in its part of the new
\* snapshot: the goroutine returns before assigning, so the part keeps the
\* freshly allocated (empty) value; the cached value is not consulted
OnSourceError(fresh, cached) == fresh

\* the goroutine of the node source (lines 211-223)
NodeTask(c) ==
    /\ ~crashed
    /\ col[c].pc = "sources"
    /\ "node" \in col[c].pending
    /\ \/ col' = [col EXCEPT ![c].pending = @ \ {"node"},
                             ![c].nodeErr = TRUE,
                             ![c].snap.NodeMetrics =
                                OnSourceError(@, snapshot.NodeMetrics)]
       \/ \E r \in NodeResults :
            col' = [col EXCEPT ![c].pending = @ \ {"node"},
                               ![c].nodeRes = r,
                               ![c].snap.NodeMetrics = r]
    /\ UNCHANGED <<cfgVars, lifeVars, cacheVars, snapshotMutex, crashed, now,
                   hist, lastRead, notManager>>

\* the goroutine of the workload source (lines 225-237)
PodTask(c) ==
    /\ ~crashed
    /\ col[c].pc = "sources"
    /\ "pod" \in col[c].pending
    /\ \/ col' = [col EXCEPT ![c].pending = @ \ {"pod"},
                             ![c].podErr = TRUE,
                             ![c].snap.PodMetrics =
                                OnSourceError(@, snapshot.PodMetrics)]
       \/ \E r \in PodResults :
            col' = [col EXCEPT ![c].pending = @ \ {"pod"},
                               ![c].podRes = r,
                               ![c].snap.PodMetrics = r]
    /\ UNCHANGED <<cfgVars, lifeVars, cacheVars, snapshotMutex, crashed, now,
                   hist, lastRead, notManager>>

\* the goroutine of the network source (lines 240-252)
NetworkTask(c) ==
    /\ ~crashed
    /\ col[c].pc = "sources"
    /\ "network" \in col[c].pending
    /\ \/ col' = [col EXCEPT ![c].pending = @ \ {"network"},
                             ![c].networkErr = TRUE,
                             ![c].snap.NetworkMetrics =
                                OnSourceError(@, snapshot.NetworkMetrics)]
       \/ \E r \in NetworkResults :
            col' = [col EXCEPT ![c].pending = @ \ {"network"},
                               ![c].networkRes = r,
                               ![c].snap.NetworkMetrics = r]
    /\ UNCHANGED <<cfgVars, lifeVars, cacheVars, snapshotMutex, crashed, now,
                   hist, lastRead, notManager>>

\* the goroutine of the uav pull source (lines 256-279): on an error
\* uavMetrics stays nil; on success every raw state is wrapped in an entry
\* stamped with the current time
UAVTask(c) ==
    /\ ~crashed
    /\ col[c].pc = "sources"
    /\ "uav" \in col[c].pending
    /\ \/ col' = [col EXCEPT ![c].pending = @ \ {"uav"}]
       \/ \E r \in UAVResults :
            col' = [col EXCEPT ![c].pending = @ \ {"uav"},
                               ![c].uavMetrics =
                                  MapOf([n \in r |-> PullEntry(n, RawState, now)])]
    /\ UNCHANGED <<cfgVars, lifeVars, cacheVars, snapshotMutex, crashed, now,
                   hist, lastRead, notManager>>

\* wg.Wait() has returned (line 283): derive the rollup of the new snapshot
CollectCalc(c) ==
    /\ ~crashed
    /\ col[c].pc = "sources"
    /\ col[c].pending = {}
    /\ col' = [col EXCEPT ![c].snap = calculateClusterMetrics(@),
                          ![c].pc = "lock"]
    /\ UNCHANGED <<cfgVars, lifeVars, cacheVars, snapshotMutex, crashed, now,
                   hist, lastRead, notManager>>

\* m.snapshotMutex.Lock() (line 289)
CollectLock(c) ==
    /\ ~crashed
    /\ col[c].pc = "lock"
    /\ snapshotMutex = "free"
    /\ snapshotMutex' = c
    /\ col' = [col EXCEPT ![c].pc = "swap"]
    /\ UNCHANGED <<cfgVars, lifeVars, cacheVars, crashed, now,
                   hist, lastRead, notManager>>

\* m.snapshot = snapshot (line 290): the cache now points to a new object, so
\* a pointer handed out earlier no longer refers to the cached snapshot
CollectSwap(c) ==
    /\ ~crashed
    /\ col[c].pc = "swap"
    /\ snapshot' = col[c].snap
    /\ lastRead' = [lastRead EXCEPT !.alias = FALSE]
    /\ col' = [col EXCEPT ![c].pc = "uav"]
    /\ UNCHANGED <<cfgVars, lifeVars, uavSnapshot, uavLastHeartbeat,
                   snapshotMutex, crashed, now, hist, notManager>>

\* m.uavSnapshot = uavMetrics (line 292): the map of the pull replaces the
\* cached map
PublishUAV(cached, pulled) == pulled

\* lines 291-292
CollectUAV(c) ==
    /\ ~crashed
    /\ col[c].pc = "uav"
    /\ IF col[c].uavMetrics.isNil
         THEN /\ col' = [col EXCEPT ![c].pc = "unlock"]
              /\ UNCHANGED uavSnapshot
         ELSE /\ uavSnapshot' = PublishUAV(uavSnapshot, col[c].uavMetrics.m)
              /\ col' = [col EXCEPT ![c].pc = "hb"]
    /\ UNCHANGED <<cfgVars, lifeVars, snapshot, uavLastHeartbeat,
                   snapshotMutex, crashed, now, hist, lastRead, notManager>>

\* lines 293-313: m.uavLastHeartbeat[nodeName] = entry["last_heartbeat"] for
\* every pulled node (the value is always a time.Time here)
CollectHeartbeats(c) ==
    /\ ~crashed
    /\ col[c].pc = "hb"
    /\ uavLastHeartbeat' =
         [n \in DOMAIN uavLastHeartbeat \cup DOMAIN col[c].uavMetrics.m |->
            IF n \in DOMAIN col[c].uavMetrics.m
              THEN col[c].uavMetrics.m[n].last_heartbeat
              ELSE uavLastHeartbeat[n]]
    /\ col' = [col EXCEPT ![c].pc = "unlock"]
    /\ UNCHANGED <<cfgVars, lifeVars, snapshot, uavSnapshot,
                   snapshotMutex, crashed, now, hist, lastRead, notManager>>

\* m.snapshotMutex.Unlock() (line 315)
CollectUnlock(c) ==
    /\ ~crashed
    /\ col[c].pc = "unlock"
    /\ snapshotMutex' = "free"
    /\ col' = [col EXCEPT ![c].pc = "ret"]
    /\ UNCHANGED <<cfgVars, lifeVars, cacheVars, crashed, now,
                   hist, lastRead, notManager>>

\* the value Collect returns (lines 321-333): the first of nodeErr, podErr; a
\* network error is only logged
CollectResult(f) == IF f.nodeErr \/ f.podErr THEN Err ELSE Nil

\* a Start that gives up when Collect returns an error
AfterCollectAbort(position, err) ==
    IF err = Err THEN "returned"
    ELSE IF position = "initCollecting" THEN "newTicker" ELSE "select"

\* where Start goes on when Collect has returned err: after the initial
\* collection (lines 149-151) to the creation of the ticker, after a cycle of
\* the loop (lines 174-176) back to the select; the error is only logged
AfterCollect(position, err) ==
    IF position = "initCollecting" THEN "newTicker" ELSE "select"

\* Collect returns to its caller: Start's initial collection (line 149),
\* Start's loop (line 174), or a direct caller.  Start only logs the error.
CollectReturn(c) ==
    /\ ~crashed
    /\ col[c].pc = "ret"
    /\ hist' = IF CollectResult(col[c]) = Nil
                 THEN [last |-> Nil, good |-> TRUE, goodSnap |-> col[c].snap]
                 ELSE [hist EXCEPT !.last = Err]
    /\ col' = [col EXCEPT ![c] = IdleFrame]
    /\ IF c \in Starters
         THEN pc' = [pc EXCEPT ![c] = AfterCollect(@, CollectResult(col[c]))]
         ELSE pc' = pc
    /\ UNCHANGED <<cfgVars, running, stopChan, ctxDone, startRet, tickerC,
                   stopRet, cacheVars, snapshotMutex, crashed, now, lastRead,
                   notManager>>

\* a direct call of the exported Collect
ManualCollect(c) ==
    /\ ~crashed
    /\ col[c].pc = "idle"
    /\ CollectBegin(c)
    /\ UNCHANGED <<cfgVars, lifeVars, cacheVars, snapshotMutex, crashed,
                   hist, lastRead, notManager>>

\* ------------------------------------------------------------- Start/Stop

\* a Start without the check of m.running
StartEnterUnguarded(s) ==
    /\ ~crashed
    /\ pc[s] \in {"idle", "returned"}
    /\ running' = TRUE
    /\ startRet' = [startRet EXCEPT ![s] = "none"]
    /\ pc' = [pc EXCEPT ![s] = "initCollect"]
    /\ UNCHANGED <<cfgVars, stopChan, ctxDone, tickerC, stopRet, cacheVars,
                   snapshotMutex, crashed, now, col, hist, lastRead, notManager>>

\* Start, lines 138-144: the check-and-set of m.running under runMutex
StartEnter(s) ==
    /\ ~crashed
    /\ pc[s] \in {"idle", "returned"}
    /\ IF running
         THEN /\ startRet' = [startRet EXCEPT ![s] = "alreadyRunning"]
              /\ pc' = [pc EXCEPT ![s] = "returned"]
              /\ UNCHANGED running
         ELSE /\ running' = TRUE
              /\ startRet' = [startRet EXCEPT ![s] = "none"]
              /\ pc' = [pc EXCEPT ![s] = "initCollect"]
    /\ UNCHANGED <<cfgVars, stopChan, ctxDone, tickerC, stopRet, cacheVars,
                   snapshotMutex, crashed, now, col, hist, lastRead, notManager>>

\* Start, line 149: the initial, synchronous collection
StartInitialCollect(s) ==
    /\ ~crashed
    /\ pc[s] = "initCollect"
    /\ CollectBegin(s)
    /\ pc' = [pc EXCEPT ![s] = "initCollecting"]
    /\ UNCHANGED <<cfgVars, running, stopChan, ctxDone, startRet, tickerC,
                   stopRet, cacheVars, snapshotMutex, crashed, hist, lastRead,
                   notManager>>

\* time.NewTicker panics on a non-positive period
NewTickerPanics(d) == d <= 0

\* Start, line 154: ticker := time.NewTicker(m.interval)
StartNewTicker(s) ==
    /\ ~crashed
    /\ pc[s] = "newTicker"
    /\ IF NewTickerPanics(interval)
         THEN /\ crashed' = TRUE
              /\ pc' = [pc EXCEPT ![s] = "panicked"]
         ELSE /\ crashed' = crashed
              /\ pc' = [pc EXCEPT ![s] = "select"]
    /\ tickerC' = [tickerC EXCEPT ![s] = FALSE]
    /\ UNCHANGED <<cfgVars, running, stopChan, ctxDone, startRet, stopRet,
                   cacheVars, snapshotMutex, now, col, hist, lastRead,
                   notManager>>

\* the runtime delivers a tick into ticker.C (capacity 1; a tick that finds
\* the channel full is dropped)
TickerFire(s) ==
    /\ ~crashed
    /\ pc[s] \in {"select", "tickCollecting"}
    /\ ~tickerC[s]
    /\ tickerC' = [tickerC EXCEPT ![s] = TRUE]
    /\ UNCHANGED <<cfgVars, running, stopChan, ctxDone, pc, startRet, stopRet,
                   cacheVars, snapshotMutex, crashed, now, col, hist, lastRead,
                   notManager>>

\* select, case <-ctx.Done() (lines 159-164)
SelectCtxDone(s) ==
    /\ ~crashed
    /\ pc[s] = "select"
    /\ ctxDone
    /\ running' = FALSE
    /\ startRet' = [startRet EXCEPT ![s] = "ctxErr"]
    /\ pc' = [pc EXCEPT ![s] = "returned"]
    /\ tickerC' = [tickerC EXCEPT ![s] = FALSE]
    /\ UNCHANGED <<cfgVars, stopChan, ctxDone, stopRet, cacheVars,
                   snapshotMutex, crashed, now, col, hist, lastRead, notManager>>

\* select, case <-m.stopChan (lines 166-171); a closed channel is always ready
SelectStop(s) ==
    /\ ~crashed
    /\ pc[s] = "select"
    /\ stopChan = "closed"
    /\ running' = FALSE
    /\ startRet' = [startRet EXCEPT ![s] = "nil"]
    /\ pc' = [pc EXCEPT ![s] = "returned"]
    /\ tickerC' = [tickerC EXCEPT ![s] = FALSE]
    /\ UNCHANGED <<cfgVars, stopChan, ctxDone, stopRet, cacheVars,
                   snapshotMutex, crashed, now, col, hist, lastRead, notManager>>

\* select, case <-ticker.C (lines 173-176): when several cases are ready the
\* Go runtime picks one of them at random, so this step is enabled whatever
\* the state of stopChan and ctx
SelectTick(s) ==
    /\ ~crashed
    /\ pc[s] = "select"
    /\ tickerC[s]
    /\ CollectBegin(s)
    /\ tickerC' = [tickerC EXCEPT ![s] = FALSE]
    /\ pc' = [pc EXCEPT ![s] = "tickCollecting"]
    /\ UNCHANGED <<cfgVars, running, stopChan, ctxDone, startRet, stopRet,
                   cacheVars, snapshotMutex, crashed, hist, lastRead,
                   notManager>>

\* Stop, lines 182-192 (one critical section of runMutex); Stop never
\* replaces the channel, and closing a closed channel panics
Stop ==
    /\ ~crashed
    /\ IF ~running
         THEN /\ stopRet' = "notRunning"
              /\ UNCHANGED <<stopChan, crashed>>
         ELSE IF stopChan = "open"
           THEN /\ stopChan' = "closed"
                /\ stopRet' = "nil"
                /\ UNCHANGED crashed
           ELSE /\ crashed' = TRUE
                /\ stopRet' = "panic"
                /\ UNCHANGED stopChan
    /\ UNCHANGED <<cfgVars, running, ctxDone, pc, startRet, tickerC, cacheVars,
                   snapshotMutex, now, col, hist, lastRead, notManager>>

\* the owner of the context cancels it
CancelCtx ==
    /\ ~crashed
    /\ ~ctxDone
    /\ ctxDone' = TRUE
    /\ UNCHANGED <<cfgVars, running, stopChan, pc, startRet, tickerC, stopRet,
                   cacheVars, snapshotMutex, crashed, now, col, hist, lastRead,
                   notManager>>

\* -------------------------------------------------------------- read APIs
\* Every reader holds the read lock for its whole body, so it is one step
\* that is enabled only while no writer holds snapshotMutex.

\* GetLatestSnapshot (lines 337-341) returns the pointer m.snapshot itself:
\* the caller's value is the cached object
GetLatestSnapshot ==
    /\ ~crashed
    /\ snapshotMutex = "free"
    /\ lastRead' = [NoRead EXCEPT !.api = "GetLatestSnapshot", !.found = TRUE,
                                  !.snap = snapshot, !.alias = TRUE]
    /\ UNCHANGED <<cfgVars, lifeVars, cacheVars, snapshotMutex, crashed, now,
                   col, hist, notManager>>

\* GetNodeMetrics (lines 344-352)
GetNodeMetrics(nodeName) ==
    /\ ~crashed
    /\ snapshotMutex = "free"
    /\ lastRead' = [NoRead EXCEPT !.api = "GetNodeMetrics", !.node = nodeName,
                                  !.found = (nodeName \in snapshot.NodeMetrics)]
    /\ UNCHANGED <<cfgVars, lifeVars, cacheVars, snapshotMutex, crashed, now,
                   col, hist, notManager>>

\* GetPodMetrics (lines 355-364); key is "namespace/name"
GetPodMetrics(key) ==
    /\ ~crashed
    /\ snapshotMutex = "free"
    /\ lastRead' = [NoRead EXCEPT !.api = "GetPodMetrics", !.pod = key,
                                  !.found = (key \in snapshot.PodMetrics)]
    /\ UNCHANGED <<cfgVars, lifeVars, cacheVars, snapshotMutex, crashed, now,
                   col, hist, notManager>>

\* GetClusterMetrics (lines 367-371)
GetClusterMetrics ==
    /\ ~crashed
    /\ snapshotMutex = "free"
    /\ lastRead' = [NoRead EXCEPT !.api = "GetClusterMetrics", !.found = TRUE,
                                  !.snap.ClusterMetrics = snapshot.ClusterMetrics]
    /\ UNCHANGED <<cfgVars, lifeVars, cacheVars, snapshotMutex, crashed, now,
                   col, hist, notManager>>

\* GetNetworkMetrics (lines 374-378)
GetNetworkMetrics ==
    /\ ~crashed
    /\ snapshotMutex = "free"
    /\ lastRead' = [NoRead EXCEPT !.api = "GetNetworkMetrics", !.found = TRUE,
                                  !.snap.NetworkMetrics = snapshot.NetworkMetrics]
    /\ UNCHANGED <<cfgVars, lifeVars, cacheVars, snapshotMutex, crashed, now,
                   col, hist, notManager>>

\* GetUAVMetrics (lines 452-465): a new map with the cached entries
GetUAVMetrics ==
    /\ ~crashed
    /\ snapshotMutex = "free"
    /\ lastRead' = [NoRead EXCEPT !.api = "GetUAVMetrics", !.found = TRUE,
                                  !.uav = uavSnapshot]
    /\ UNCHANGED <<cfgVars, lifeVars, cacheVars, snapshotMutex, crashed, now,
                   col, hist, notManager>>

\* GetSingleUAVMetrics (lines 468-490): a clone of the node's entry
GetSingleUAVMetrics(nodeName) ==
    /\ ~crashed
    /\ snapshotMutex = "free"
    /\ lastRead' = [NoRead EXCEPT !.api = "GetSingleUAVMetrics",
                                  !.node = nodeName,
                                  !.found = (nodeName \in DOMAIN uavSnapshot),
                                  !.uav = [n \in {nodeName} \cap DOMAIN uavSnapshot
                                             |-> uavSnapshot[n]]]
    /\ UNCHANGED <<cfgVars, lifeVars, cacheVars, snapshotMutex, crashed, now,
                   col, hist, notManager>>

\* A caller that got the snapshot from GetLatestSnapshot writes to it (here:
\* it clears the node map).  While the cache still points to that object the
\* write is a write to the cached snapshot.
CallerMutatesSnapshot ==
    /\ ~crashed
    /\ lastRead.api = "GetLatestSnapshot"
    /\ lastRead.snap.NodeMetrics # {}
    /\ lastRead' = [lastRead EXCEPT !.snap.NodeMetrics = {}]
    /\ snapshot' = IF lastRead.alias
                     THEN [snapshot EXCEPT !.NodeMetrics = {}]
                     ELSE snapshot
    /\ UNCHANGED <<cfgVars, lifeVars, uavSnapshot, uavLastHeartbeat,
                   snapshotMutex, crashed, now, col, hist, notManager>>

\* -------------------------------------------------------- UpdateUAVReport

MkReport(n, id, t, st) ==
    [NodeName |-> n, UAVID |-> id, Source |-> "", Status |-> "",
     Timestamp |-> t, State |-> st]

\* a variant that stamps every report with its arrival time
ReportTimeArrival(report, t) == t

\* lines 396-409: the defaults UpdateUAVReport applies
ReportTime(report, t) == IF report.Timestamp = ZeroTime THEN t ELSE report.Timestamp
StatusOf(report) == IF report.Status = "" THEN "active" ELSE report.Status
SourceOf(report) == IF report.Source = "" THEN "agent" ELSE report.Source

\* lines 411-435: the entry stored for a report
AgentEntry(report, reportTime) ==
    [node_name |-> report.NodeName, uav_id |-> report.UAVID,
     status |-> StatusOf(report), source |-> SourceOf(report),
     timestamp |-> reportTime, last_heartbeat |-> reportTime,
     state |-> report.State]

\* a Go map after m[k] = v
MapPut(m, k, v) == [x \in DOMAIN m \cup {k} |-> IF x = k THEN v ELSE m[x]]

\* UpdateUAVReport, lines 392-435: the locals after the guard and the
\* construction of the entry (raw keeps the report as the caller sent it)
UpdateUAVReportFrame(report, viaHandler) ==
    IF report.NodeName = EmptyName
      THEN [IdleReq EXCEPT !.pc = "returned",
                           !.handler = viaHandler,
                           !.report = report,
                           !.raw = report]
      ELSE [IdleReq EXCEPT !.pc = "u_lock",
                           !.handler = viaHandler,
                           !.report = report,
                           !.raw = report,
                           !.reportTime = ReportTime(report, now)]

\* UpdateUAVReport, lines 392-435: the guard and the construction of the entry
UpdateUAVReportBegin(r, report, viaHandler) ==
    rq' = [rq EXCEPT ![r] = UpdateUAVReportFrame(report, viaHandler)]

\* a direct call of Manager.UpdateUAVReport
CallUpdateUAVReport(r, report) ==
    /\ ~crashed
    /\ rq[r].pc \in {"idle", "returned"}
    /\ UpdateUAVReportBegin(r, report, FALSE)
    /\ UNCHANGED <<cfgVars, lifeVars, cacheVars, snapshotMutex, crashed, now,
                   col, hist, lastRead, deps, crd, notIngest>>

\* m.snapshotMutex.Lock() (line 437)
ReportLock(r) ==
    /\ ~crashed
    /\ rq[r].pc = "u_lock"
    /\ snapshotMutex = "free"
    /\ snapshotMutex' = r
    /\ rq' = [rq EXCEPT ![r].pc = "u_set"]
    /\ UNCHANGED <<cfgVars, lifeVars, cacheVars, crashed, now,
                   col, hist, lastRead, deps, crd, notIngest>>

\* m.uavSnapshot[report.NodeName] = entry (line 441)
ReportStore(r) ==
    /\ ~crashed
    /\ rq[r].pc = "u_set"
    /\ uavSnapshot' = MapPut(uavSnapshot, rq[r].report.NodeName,
                             AgentEntry(rq[r].report, rq[r].reportTime))
    /\ rq' = [rq EXCEPT ![r].pc = "u_hb"]
    /\ UNCHANGED <<cfgVars, lifeVars, snapshot, uavLastHeartbeat, snapshotMutex,
                   crashed, now, col, hist, lastRead, deps, crd, notIngest>>

\* an UpdateUAVReport that leaves the heartbeat map alone
ReportHeartbeatSkipped(r) ==
    /\ ~crashed
    /\ rq[r].pc = "u_hb"
    /\ rq' = [rq EXCEPT ![r].pc = "u_unlock"]
    /\ UNCHANGED <<managerVars, deps, crd, notIngest>>

\* m.uavLastHeartbeat[report.NodeName] = reportTime (line 445)
ReportHeartbeat(r) ==
    /\ ~crashed
    /\ rq[r].pc = "u_hb"
    /\ uavLastHeartbeat' = MapPut(uavLastHeartbeat, rq[r].report.NodeName,
                                  rq[r].reportTime)
    /\ rq' = [rq EXCEPT ![r].pc = "u_unlock"]
    /\ UNCHANGED <<cfgVars, lifeVars, snapshot, uavSnapshot, snapshotMutex,
                   crashed, now, col, hist, lastRead, deps, crd, notIngest>>

\* m.snapshotMutex.Unlock() (line 446) and the return to the caller
ReportUnlock(r) ==
    /\ ~crashed
    /\ rq[r].pc = "u_unlock"
    /\ snapshotMutex' = "free"
    /\ rq' = [rq EXCEPT ![r].pc = IF rq[r].handler THEN "upsert" ELSE "returned"]
    /\ UNCHANGED <<cfgVars, lifeVars, cacheVars, crashed, now,
                   col, hist, lastRead, deps, crd, notIngest>>

\* ------------------------------------------------- sanitizeResourceName

\* strings.ToLower on one character
ToLowerChar(ch) ==
    CASE ch = "A" -> "a"
      [] ch = "B" -> "b"
      [] ch = "N" -> "n"
      [] OTHER -> ch

\* strings.ReplaceAll(name, "_", "-") and strings.ReplaceAll(name, ".", "-")
ReplaceChar(ch) == IF ch \in {"_", "."} THEN "-" ELSE ch

IsSpace(ch) == ch \in {" ", "\t", "\n"}

RECURSIVE TrimLeft(_)
TrimLeft(s) ==
    IF s # <<>> /\ IsSpace(Head(s)) THEN TrimLeft(Tail(s)) ELSE s

RECURSIVE TrimRight(_)
TrimRight(s) ==
    IF s # <<>> /\ IsSpace(s[Len(s)]) THEN TrimRight(SubSeq(s, 1, Len(s) - 1)) ELSE s

\* strings.TrimSpace
TrimSpace(s) == TrimRight(TrimLeft(s))

\* sanitizeResourceName (client.go lines 452-461)
sanitizeResourceName(name) ==
    LET lowered == [i \in 1..Len(name) |-> ReplaceChar(ToLowerChar(name[i]))]
        trimmed == TrimSpace(lowered)
    IN IF trimmed = <<>> THEN <<"unknown">> ELSE trimmed

\* fmt.Sprintf("uavmetric-%s", sanitizeResourceName(report.NodeName))
ResourceName(report) == <<"uavmetric-">> \o sanitizeResourceName(report.NodeName)

\* ------------------------------------------------------ UpsertUAVMetric

\* reportTime.UTC().Format(time.RFC3339): whole seconds, the fraction is cut
TicksPerSecond == 2
FormatRFC3339(t) == t \div TicksPerSecond

\* client.go lines 355-387
SpecOf(report) ==
    [node_name |-> report.NodeName, uav_id |-> report.UAVID, state |-> report.State]

\* client.go lines 389-392
StatusPayload(report, t) ==
    [last_update |-> FormatRFC3339(ReportTime(report, t)),
     collection_status |-> StatusOf(report)]

\* client.go lines 394-405
LabelsOf(report) ==
    LET base == [k \in {"app", "monitoring.io/component", "monitoring.io/node"} |->
                   CASE k = "app" -> <<"uav-agent">>
                     [] k = "monitoring.io/component" -> <<"uav-metrics">>
                     [] OTHER -> sanitizeResourceName(report.NodeName)]
    IN IF report.UAVID # <<>>
         THEN MapPut(base, "monitoring.io/uav-id", sanitizeResourceName(report.UAVID))
         ELSE base

\* for key, value := range labels { existingLabels[key] = value }
MergeLabels(existingLabels, labels) ==
    [k \in DOMAIN existingLabels \cup DOMAIN labels |->
       IF k \in DOMAIN labels THEN labels[k] ELSE existingLabels[k]]

\* the object built at lines 407-419 (the server assigns the version)
NewObject(report, t) ==
    [spec |-> SpecOf(report), status |-> StatusPayload(report, t),
     labels |-> LabelsOf(report), rv |-> 1]

\* a variant that keeps the status of the object read by Get
UpdatedObjectKeepStatus(existing, report, t) ==
    [spec |-> SpecOf(report), status |-> existing.status,
     labels |-> MergeLabels(existing.labels, LabelsOf(report)),
     rv |-> existing.rv]

\* lines 432-443: the object read by Get, with spec and status replaced and
\* the labels merged
UpdatedObject(existing, report, t) ==
    [spec |-> SpecOf(report), status |-> StatusPayload(report, t),
     labels |-> MergeLabels(existing.labels, LabelsOf(report)),
     rv |-> existing.rv]

\* ------------------------------------------------------ uavReportHandler

\* part_000 lines 590-604: the defaults the handler applies
HandlerDefaults(report, t) ==
    [report EXCEPT !.UAVID = IF @ = <<>> THEN <<"uav-">> \o report.NodeName ELSE @,
                   !.Timestamp = IF @ = ZeroTime THEN t ELSE @,
                   !.Source = IF @ = "" THEN "agent" ELSE @,
                   !.Status = IF @ = "" THEN "active" ELSE @]

\* part_000 lines 579-610: decode, reject an empty node name, apply the
\* defaults and hand the report to the aggregator when there is one
HandlerReceive(r, report) ==
    /\ ~crashed
    /\ rq[r].pc = "idle"
    /\ IF report.NodeName = EmptyName
         THEN rq' = [rq EXCEPT ![r] = [IdleReq EXCEPT !.pc = "returned",
                                                      !.handler = TRUE,
                                                      !.report = report,
                                                      !.raw = report,
                                                      !.crdStatus = "badRequest"]]
         ELSE IF deps.manager
           THEN rq' = [rq EXCEPT ![r] =
                         [UpdateUAVReportFrame(HandlerDefaults(report, now), TRUE)
                            EXCEPT !.raw = report]]
           ELSE rq' = [rq EXCEPT ![r] =
                         [IdleReq EXCEPT !.pc = "upsert", !.handler = TRUE,
                                         !.raw = report,
                                         !.report = HandlerDefaults(report, now),
                                         !.reportTime = ReportTime(HandlerDefaults(report, now), now)]]
    /\ UNCHANGED <<cfgVars, lifeVars, cacheVars, snapshotMutex, crashed, now,
                   col, hist, lastRead, deps, crd, notIngest>>

\* a variant that answers "updated" when there is no cluster client
HandlerUpsertOptimistic(r) ==
    /\ ~crashed
    /\ rq[r].pc = "upsert"
    /\ IF deps.k8s
         THEN rq' = [rq EXCEPT ![r].pc = "get"]
         ELSE rq' = [rq EXCEPT ![r].pc = "returned", ![r].crdStatus = "updated"]
    /\ UNCHANGED <<cfgVars, lifeVars, cacheVars, snapshotMutex, crashed, now,
                   col, hist, lastRead, deps, crd, notIngest>>

\* part_000 lines 612-617: without a cluster client the upsert is skipped
HandlerUpsert(r) ==
    /\ ~crashed
    /\ rq[r].pc = "upsert"
    /\ IF deps.k8s
         THEN rq' = [rq EXCEPT ![r].pc = "get"]
         ELSE rq' = [rq EXCEPT ![r].pc = "returned", ![r].crdStatus = "unavailable"]
    /\ UNCHANGED <<cfgVars, lifeVars, cacheVars, snapshotMutex, crashed, now,
                   col, hist, lastRead, deps, crd, notIngest>>

\* client.go lines 421-430: resource.Get
UpsertGet(r) ==
    /\ ~crashed
    /\ rq[r].pc = "get"
    /\ \/ /\ ResourceName(rq[r].report) \in DOMAIN crd
          /\ rq' = [rq EXCEPT ![r].pc = "update",
                              ![r].existing = crd[ResourceName(rq[r].report)]]
       \/ /\ ResourceName(rq[r].report) \notin DOMAIN crd
          /\ rq' = [rq EXCEPT ![r].pc = "create"]
       \/ rq' = [rq EXCEPT ![r].pc = "returned", ![r].crdStatus = "error"]
    /\ UNCHANGED <<cfgVars, lifeVars, cacheVars, snapshotMutex, crashed, now,
                   col, hist, lastRead, deps, crd, notIngest>>

\* client.go lines 423-427: resource.Create; the server refuses a name that
\* exists by now (AlreadyExists)
UpsertCreate(r) ==
    /\ ~crashed
    /\ rq[r].pc = "create"
    /\ \/ /\ ResourceName(rq[r].report) \notin DOMAIN crd
          /\ crd' = MapPut(crd, ResourceName(rq[r].report),
                           NewObject(rq[r].report, rq[r].reportTime))
          /\ rq' = [rq EXCEPT ![r].pc = "returned", ![r].crdStatus = "updated"]
       \/ /\ rq' = [rq EXCEPT ![r].pc = "returned", ![r].crdStatus = "error"]
          /\ UNCHANGED crd
    /\ UNCHANGED <<cfgVars, lifeVars, cacheVars, snapshotMutex, crashed, now,
                   col, hist, lastRead, deps, notIngest>>

\* client.go lines 432-447: resource.Update of the object read by Get; the
\* server refuses an object whose resourceVersion is stale (Conflict)
UpsertUpdate(r) ==
    /\ ~crashed
    /\ rq[r].pc = "update"
    /\ \/ /\ ResourceName(rq[r].report) \in DOMAIN crd
          /\ crd[ResourceName(rq[r].report)].rv = rq[r].existing.rv
          /\ crd' = MapPut(crd, ResourceName(rq[r].report),
                           [UpdatedObject(rq[r].existing, rq[r].report, rq[r].reportTime)
                              EXCEPT !.rv = @ + 1])
          /\ rq' = [rq EXCEPT ![r].pc = "returned", ![r].crdStatus = "updated"]
       \/ /\ rq' = [rq EXCEPT ![r].pc = "returned", ![r].crdStatus = "error"]
          /\ UNCHANGED crd
    /\ UNCHANGED <<cfgVars, lifeVars, cacheVars, snapshotMutex, crashed, now,
                   col, hist, lastRead, deps, notIngest>>

\* --------------------------------------------------- scheduler.Controller

\* strings.ToLower on a name
LowerName(n) == [i \in 1..Len(n) |-> ToLowerChar(n[i])]

\* strings.ToLower on a collection status
LowerStatus(s) == IF s = "ACTIVE" THEN "active" ELSE s

\* the orders in which a List call can return the objects named S
ListOrders(S) ==
    {f \in [1..Cardinality(S) -> S] : \A x \in S : \E i \in 1..Cardinality(S) : f[i] = x}

\* readFloat(uavSpec, "battery", "remaining_percent"): 0 when the state, and
\* with it the battery substructure, is missing
BatteryOf(obj) == IF obj.spec.state.isNil THEN 0 ELSE obj.spec.state.battery

\* buildCandidates (controller.go lines 174-221): the candidates in listing
\* order
RECURSIVE buildCandidates(_, _)
buildCandidates(spec, uavList) ==
    IF uavList = <<>> THEN <<>>
    ELSE LET item == Head(uavList)
             nodeName == item.spec.node_name
             battery == BatteryOf(item)
             collectionStatus == LowerStatus(item.status.collection_status)
             preferred == {LowerName(p) : p \in spec.preferredNodes}
             score == battery + (IF LowerName(nodeName) \in preferred THEN 10 ELSE 0)
             rest == buildCandidates(spec, Tail(uavList))
         IN IF \/ nodeName = EmptyName
               \/ (spec.minBatteryPercent > 0 /\ battery < spec.minBatteryPercent)
               \/ (collectionStatus # "" /\ collectionStatus # "active")
              THEN rest
              ELSE <<[NodeName |-> nodeName, UAVID |-> item.spec.uav_id,
                      Battery |-> battery, Score |-> score]>> \o rest

\* a variant with an unstable sort: the last candidate, in listing order,
\* that has the greatest score
ChosenLast(cands) ==
    LET best == CHOOSE i \in 1..Len(cands) :
                   /\ \A j \in 1..Len(cands) : cands[j].Score <= cands[i].Score
                   /\ \A j \in (i + 1)..Len(cands) : cands[j].Score < cands[i].Score
    IN cands[best]

\* sort.SliceStable by descending score, then candidates[0]: the first
\* candidate, in listing order, that has the greatest score
Chosen(cands) ==
    LET best == CHOOSE i \in 1..Len(cands) :
                   /\ \A j \in 1..Len(cands) : cands[j].Score <= cands[i].Score
                   /\ \A j \in 1..(i - 1) : cands[j].Score < cands[i].Score
    IN cands[best]

NoStatus ==
    [phase |-> "", assignedNode |-> EmptyName, assignedUAV |-> <<>>, score |-> 0,
     message |-> "", lastUpdated |-> ZeroTime]

\* processRequest, lines 126-142: the typed request spec; minBatteryPercent
\* is taken only from a value that asserts to float64
ParseSpec(spec) ==
    [spec EXCEPT !.minBatteryPercent = IF @.type = "float64" THEN @.v ELSE 0]

\* a variant of processRequest without the phase check of lines 113-119
DecideNoSkip(obj, uavList) ==
    IF ~obj.hasSpec
      THEN [kind |-> "error", status |-> obj.status]
    ELSE IF obj.spec.workloadName = "" \/ obj.spec.workloadNamespace = ""
      THEN [kind |-> "write",
            status |-> [NoStatus EXCEPT !.phase = "Failed", !.message = "empty workload"]]
    ELSE IF buildCandidates(ParseSpec(obj.spec), uavList) = <<>>
      THEN [kind |-> "write",
            status |-> [NoStatus EXCEPT !.phase = "Failed", !.message = "no candidate"]]
    ELSE LET chosen == Chosen(buildCandidates(ParseSpec(obj.spec), uavList))
         IN [kind |-> "write",
             status |-> [NoStatus EXCEPT !.phase = "Assigned",
                                         !.assignedNode = chosen.NodeName,
                                         !.assignedUAV = chosen.UAVID,
                                         !.score = chosen.Score,
                                         !.message = "selected"]]

\* processRequest (lines 112-172): "skip" when the phase is neither unset nor
\* Pending, "error" when the request has no spec, else the status to write
Decide(obj, uavList) ==
    IF obj.status.phase # "" /\ obj.status.phase # "Pending"
      THEN [kind |-> "skip", status |-> obj.status]
    ELSE IF ~obj.hasSpec
      THEN [kind |-> "error", status |-> obj.status]
    ELSE IF obj.spec.workloadName = "" \/ obj.spec.workloadNamespace = ""
      THEN [kind |-> "write",
            status |-> [NoStatus EXCEPT !.phase = "Failed", !.message = "empty workload"]]
    ELSE IF buildCandidates(ParseSpec(obj.spec), uavList) = <<>>
      THEN [kind |-> "write",
            status |-> [NoStatus EXCEPT !.phase = "Failed", !.message = "no candidate"]]
    ELSE LET chosen == Chosen(buildCandidates(ParseSpec(obj.spec), uavList))
         IN [kind |-> "write",
             status |-> [NoStatus EXCEPT !.phase = "Assigned",
                                         !.assignedNode = chosen.NodeName,
                                         !.assignedUAV = chosen.UAVID,
                                         !.score = chosen.Score,
                                         !.message = "selected"]]

\* updateStatus (lines 223-250): the time stamp, and Pending for an empty phase
StatusMap(status, t) ==
    [status EXCEPT !.lastUpdated = FormatRFC3339(t),
                   !.phase = IF @ = "" THEN "Pending" ELSE @]

\* reconcile, lines 89-94: list the scheduling requests (a call made with a
\* cancelled context fails)
ReconcileListRequests ==
    /\ rpc = "reconcile"
    /\ \/ /\ rpc' = "wait"
          /\ rpass' = [rpass EXCEPT !.last = Err]
          /\ UNCHANGED <<ritems, ridx>>
       \/ \E order \in ListOrders(DOMAIN sreq) :
            /\ ~rctxDone
            /\ ritems' = [i \in DOMAIN order |-> [name |-> order[i], obj |-> sreq[order[i]]]]
            /\ ridx' = 1
            /\ rpc' = "listUAV"
            /\ UNCHANGED rpass
    /\ UNCHANGED <<managerVars, ingestVars, watchVars, callVars, sreq, ruavs, rtick, rctxDone>>

\* reconcile, lines 96-101: list the uav resources
ReconcileListUAV ==
    /\ rpc = "listUAV"
    /\ \/ /\ rpc' = "wait"
          /\ rpass' = [rpass EXCEPT !.last = Err]
          /\ UNCHANGED ruavs
       \/ \E order \in ListOrders(DOMAIN crd) :
            /\ ~rctxDone
            /\ ruavs' = [i \in DOMAIN order |-> crd[order[i]]]
            /\ rpc' = "process"
            /\ UNCHANGED rpass
    /\ UNCHANGED <<managerVars, ingestVars, watchVars, callVars, sreq, ritems, ridx, rtick, rctxDone>>

\* reconcile, lines 103-107: processRequest on the next listed request; an
\* error is logged and the loop goes on.  The status write can fail.
ProcessRequest ==
    /\ rpc = "process"
    /\ ridx <= Len(ritems)
    /\ LET item == ritems[ridx]
           d == Decide(item.obj, ruavs)
       IN \/ /\ d.kind = "skip"
             /\ UNCHANGED <<sreq, rpass>>
          \/ /\ d.kind = "error"
             /\ rpass' = [rpass EXCEPT !.failed = @ \cup {ridx}]
             /\ UNCHANGED sreq
          \/ /\ d.kind = "write"
             /\ ~rctxDone
             /\ item.name \in DOMAIN sreq
             /\ sreq' = [sreq EXCEPT ![item.name].status = StatusMap(d.status, now)]
             /\ UNCHANGED rpass
          \/ /\ d.kind = "write"
             /\ rpass' = [rpass EXCEPT !.failed = @ \cup {ridx}]
             /\ UNCHANGED sreq
    /\ ridx' = ridx + 1
    /\ UNCHANGED <<managerVars, ingestVars, watchVars, callVars, ritems, ruavs, rpc, rtick, rctxDone>>

\* reconcile, line 109: all listed requests were visited
ReconcileDone ==
    /\ rpc = "process"
    /\ ridx > Len(ritems)
    /\ rpc' = "wait"
    /\ rpass' = [rpass EXCEPT !.last = Nil]
    /\ UNCHANGED <<managerVars, ingestVars, watchVars, callVars, sreq, ritems, ridx, ruavs, rtick, rctxDone>>

\* the runtime delivers a tick into the controller's ticker.C
SchedTickerFire ==
    /\ rpc # "stopped"
    /\ ~rtick
    /\ rtick' = TRUE
    /\ UNCHANGED <<managerVars, ingestVars, watchVars, callVars, sreq, ritems, ridx, ruavs, rpc, rpass, rctxDone>>

\* Run, lines 79-84, case <-ticker.C: the next pass (whatever the last pass
\* returned)
RunTick ==
    /\ rpc = "wait"
    /\ rtick
    /\ rtick' = FALSE
    /\ rpc' = "reconcile"
    /\ rpass' = [failed |-> {}, last |-> "running", prev |-> rpass.last]
    /\ UNCHANGED <<managerVars, ingestVars, watchVars, callVars, sreq, ritems, ridx, ruavs, rctxDone>>

\* Run, lines 80-82, case <-ctx.Done()
RunCtxDone ==
    /\ rpc = "wait"
    /\ rctxDone
    /\ rpc' = "stopped"
    /\ UNCHANGED <<managerVars, ingestVars, watchVars, callVars, sreq, ritems, ridx, ruavs, rtick, rpass, rctxDone>>

\* the owner of the controller's context cancels it
CancelRunCtx ==
    /\ ~rctxDone
    /\ rctxDone' = TRUE
    /\ UNCHANGED <<managerVars, ingestVars, watchVars, callVars, sreq, ritems, ridx, ruavs, rpc, rtick, rpass>>

\* --------------------------------------------------------- specifications

\* the steps of a Collect call whose sources are the node and workload sources
CoreCollectStep(c) ==
    \/ NodeTask(c)
    \/ PodTask(c)
    \/ CollectCalc(c)
    \/ CollectLock(c)
    \/ CollectSwap(c)
    \/ CollectUAV(c)
    \/ CollectUnlock(c)
    \/ CollectReturn(c)

\* a Start call, from its entry to its return
LifecycleStep(s) ==
    \/ StartEnter(s)
    \/ StartInitialCollect(s)
    \/ StartNewTicker(s)
    \/ TickerFire(s)
    \/ SelectCtxDone(s)
    \/ SelectStop(s)
    \/ SelectTick(s)

\* Spec: the lifecycle of a manager with the node and workload sources, under
\* concurrent Start calls, Stop calls and cancellation
Init ==
    /\ InitManager({"node", "pod"}, {0, 1})
    /\ InitIngest(TRUE, TRUE, EmptyMap)
    /\ InitScheduler(EmptyMap)
    /\ InitWatcher
    /\ InitCalls

Next ==
    \/ \E s \in Starters : LifecycleStep(s)
    \/ \E c \in Starters : CoreCollectStep(c)
    \/ Stop
    \/ CancelCtx

Spec == Init /\ [][Next]_vars

\* a Start call that nobody stops
LoopStep(s) ==
    \/ StartEnter(s)
    \/ StartInitialCollect(s)
    \/ StartNewTicker(s)
    \/ TickerFire(s)
    \/ SelectTick(s)

\* the steps of a Collect call with the node, workload and network sources
SnapCollectStep(c) ==
    \/ NodeTask(c)
    \/ PodTask(c)
    \/ NetworkTask(c)
    \/ CollectCalc(c)
    \/ CollectLock(c)
    \/ CollectSwap(c)
    \/ CollectUAV(c)
    \/ CollectUnlock(c)
    \/ CollectReturn(c)

\* a call of one of the snapshot read APIs
ReadStep ==
    \/ GetLatestSnapshot
    \/ \E n \in Nodes : GetNodeMetrics(n)
    \/ \E k \in Pods : GetPodMetrics(k)
    \/ GetClusterMetrics
    \/ GetNetworkMetrics

\* SpecSnap: a running manager with the node, workload and network sources,
\* and callers of the snapshot read APIs
InitSnap ==
    /\ InitManager({"node", "pod", "network"}, {1})
    /\ InitIngest(TRUE, TRUE, EmptyMap)
    /\ InitScheduler(EmptyMap)
    /\ InitWatcher
    /\ InitCalls

NextSnap ==
    \/ LoopStep("s1")
    \/ SnapCollectStep("s1")
    \/ ReadStep

SpecSnap == InitSnap /\ [][NextSnap]_vars

\* SpecCaller: SpecSnap with a caller that writes to what it was handed
NextCaller ==
    \/ NextSnap
    \/ CallerMutatesSnapshot

SpecCaller == InitSnap /\ [][NextCaller]_vars

\* the steps of a Collect call whose only source is the uav pull
UAVCollectStep(c) ==
    \/ UAVTask(c)
    \/ CollectCalc(c)
    \/ CollectLock(c)
    \/ CollectSwap(c)
    \/ CollectUAV(c)
    \/ CollectHeartbeats(c)
    \/ CollectUnlock(c)
    \/ CollectReturn(c)

\* the reports agents push: for a node the pull returns, for a node it does
\* not return, and without a node name
Reports ==
    {MkReport(N1, <<"u", "1">>, ZeroTime, StateOf(80)),
     MkReport(N2, <<"u", "2">>, ZeroTime, NilState),
     MkReport(EmptyName, <<>>, ZeroTime, NilState)}

\* a direct call of UpdateUAVReport, from its entry to its return
ReportStep(r) ==
    \/ \E report \in Reports : CallUpdateUAVReport(r, report)
    \/ ReportLock(r)
    \/ ReportStore(r)
    \/ ReportHeartbeat(r)
    \/ ReportUnlock(r)

\* SpecUAV: a running manager whose source is the uav pull, a caller of
\* UpdateUAVReport and callers of the uav read APIs
InitUAV ==
    /\ InitManager({"uav"}, {1})
    /\ InitIngest(TRUE, FALSE, EmptyMap)
    /\ InitScheduler(EmptyMap)
    /\ InitWatcher
    /\ InitCalls

NextUAV ==
    \/ LoopStep("s1")
    \/ UAVCollectStep("s1")
    \/ ReportStep("r1")
    \/ GetUAVMetrics
    \/ \E n \in Nodes : GetSingleUAVMetrics(n)

SpecUAV == InitUAV /\ [][NextUAV]_vars

\* the reports the two ingestion requests carry: two different pushes for the
\* same node, and one without a node name
Pushes ==
    {MkReport(N1, <<>>, ZeroTime, StateOf(10)),
     MkReport(N1, <<>>, ZeroTime, StateOf(20)),
     MkReport(EmptyName, <<>>, ZeroTime, NilState)}

\* a request to the report endpoint, from its receipt to its response
HandlerStep(r) ==
    \/ \E report \in Pushes : HandlerReceive(r, report)
    \/ ReportLock(r)
    \/ ReportStore(r)
    \/ ReportHeartbeat(r)
    \/ ReportUnlock(r)
    \/ HandlerUpsert(r)
    \/ UpsertGet(r)
    \/ UpsertCreate(r)
    \/ UpsertUpdate(r)

\* SpecIngest: two concurrent requests to the report endpoint of a server
\* that has both the aggregator and the cluster client
InitIngestion ==
    /\ InitManager({"node", "pod"}, {1})
    /\ InitIngest(TRUE, TRUE, EmptyMap)
    /\ InitScheduler(EmptyMap)
    /\ InitWatcher
    /\ InitCalls

NextIngest == \E r \in Reqs : HandlerStep(r)

SpecIngest == InitIngestion /\ [][NextIngest]_vars

\* the steps of a Collect call whose only source is the node source
NodeCollectStep(c) ==
    \/ NodeTask(c)
    \/ CollectCalc(c)
    \/ CollectLock(c)
    \/ CollectSwap(c)
    \/ CollectUAV(c)
    \/ CollectUnlock(c)
    \/ CollectReturn(c)

\* the uavmetrics store after one push for node N1
OneUAVStore ==
    MapPut(EmptyMap, ResourceName(MkReport(N1, <<"u", "1">>, 1, StateOf(60))),
           NewObject(MkReport(N1, <<"u", "1">>, 1, StateOf(60)), 1))

\* two scheduling requests: one that can be assigned, one without a spec
LoopRequests ==
    [q \in {"q1", "q2"} |->
       IF q = "q1" THEN Request(TRUE, "w", "ns", Int64(0), {})
                   ELSE Request(FALSE, "", "", Int64(0), {})]

\* a pass of the reconciler and the wait for the next tick
ReconcilerStep ==
    \/ ReconcileListRequests
    \/ ReconcileListUAV
    \/ ProcessRequest
    \/ ReconcileDone
    \/ SchedTickerFire
    \/ RunTick

\* SpecLoops: the two periodic loops, the aggregator's and the reconciler's,
\* with sources, listings and status writes that can fail
InitLoops ==
    /\ InitManager({"node"}, {1})
    /\ InitIngest(TRUE, TRUE, OneUAVStore)
    /\ InitScheduler(LoopRequests)
    /\ InitWatcher
    /\ InitCalls

NextLoops ==
    \/ LoopStep("s1")
    \/ NodeCollectStep("s1")
    \/ ReconcilerStep

SpecLoops == InitLoops /\ [][NextLoops]_vars

\* ------------------------------------------------------------- properties

\* the Start call of s is between its successful entry and its return
ActiveLoop(s) ==
    pc[s] \in {"initCollect", "initCollecting", "newTicker", "select", "tickCollecting"}

\* C1: Start succeeds only when no Start is running and Stop succeeds only
\* while one is running.  A Start issued while another Start is running
\* returns the already-running error, begins no collection and no second
\* loop; a Stop issued while not running returns the not-running error and
\* leaves the stop channel alone.  At every moment at most one collection
\* loop is active, and a loop is active only while the running flag is set.
C1_LifecycleGuards ==
    /\ [](Cardinality({s \in Starters : ActiveLoop(s)}) <= 1)
    /\ [](\A s \in Starters : ActiveLoop(s) => running)
    /\ [][/\ \A s \in Starters :
               /\ (~ActiveLoop(s) /\ ActiveLoop(s)') => ~running
               /\ (StartEnter(s) /\ running) =>
                     /\ startRet'[s] = "alreadyRunning"
                     /\ ~ActiveLoop(s)'
                     /\ col' = col
                     /\ now' = now
          /\ (Stop /\ ~running) => (stopRet' = "notRunning" /\ stopChan' = stopChan)
          /\ (Stop /\ stopRet' = "nil") => (running /\ stopChan' = "closed")
         ]_vars

\* C1 witness: one Start call is in its loop, the other was refused, and a
\* Stop was refused because nothing was running
C1_Witness ==
    \E s, t \in Starters :
        /\ s # t
        /\ pc[s] = "select"
        /\ startRet[t] = "alreadyRunning"
        /\ pc[t] = "returned"
        /\ stopRet = "notRunning"

\* C2 (as the claim states it): once Stop has returned successfully or the
\* context is cancelled, the loop begins no new Collect cycle
C2_NoCycleAfterStop ==
    [][\A s \in Starters :
          (pc[s] = "select" /\ (ctxDone \/ (stopChan = "closed" /\ stopRet = "nil")))
             => pc'[s] # "tickCollecting"]_vars

\* C3: a failing cycle never ends a periodic loop.  When Collect returns an
\* error to Start, Start goes on to the ticker or back to the select, from
\* where only a tick moves it (into the next Collect); when a listing of the
\* reconciler fails the pass ends in the wait for the next tick, and from the
\* wait the reconciler only ever goes into the next pass; within a pass a
\* request that is processed, failing or not, is followed by the next one.
C3_FailuresKeepLoops ==
    [][/\ \A s \in Starters :
             /\ (col[s].pc = "ret" /\ col'[s].pc # "ret" /\ CollectResult(col[s]) = Err)
                   => pc'[s] \in {"newTicker", "select"}
             /\ (pc[s] = "select" /\ hist.last = Err)
                   => pc'[s] \in {"select", "tickCollecting"}
       /\ (rpc \in {"reconcile", "listUAV"} /\ rpc' # rpc /\ rpass'.last = Err)
             => rpc' = "wait"
       /\ (rpc = "wait" /\ rpc' # rpc) => rpc' = "reconcile"
       /\ (rpc = "process" /\ ridx <= Len(ritems) /\ <<rpc, ridx, sreq, rpass>>' # <<rpc, ridx, sreq, rpass>>)
             => (rpc' = "process" /\ ridx' = ridx + 1)
       /\ (rpc = "process" /\ rpc' # rpc) => ridx > Len(ritems)
      ]_vars

\* C3 witness: the last Collect returned an error and the loop is in a new
\* cycle; the last pass of the reconciler failed on a listing and a new pass
\* is under way, in which the first request failed and the second one was
\* processed after it
C3_Witness ==
    /\ hist.last = Err
    /\ pc["s1"] = "tickCollecting"
    /\ rpass.prev = Err
    /\ rpc = "process"
    /\ 1 \in rpass.failed
    /\ ridx = 3

\* C4 (as the claim states it): with a zero collection period Start never
\* faults and never runs its loop with the zero period
C4_ZeroPeriodNeverFaults ==
    interval = 0 =>
        \A s \in Starters : pc[s] \notin {"panicked", "select", "tickCollecting"}

\* what a cycle publishes for a source: nothing when the source failed
PublishedPart(failed, result) == IF failed THEN {} ELSE result

ReadAgrees(read, snap) ==
    CASE read.api = "GetLatestSnapshot" -> SnapshotData(read.snap) = SnapshotData(snap)
      [] read.api = "GetNodeMetrics" -> read.found = (read.node \in snap.NodeMetrics)
      [] read.api = "GetPodMetrics" -> read.found = (read.pod \in snap.PodMetrics)
      [] read.api = "GetClusterMetrics" ->
           /\ read.snap.ClusterMetrics.TotalNodes = snap.ClusterMetrics.TotalNodes
           /\ read.snap.ClusterMetrics.TotalPods = snap.ClusterMetrics.TotalPods
      [] OTHER -> TRUE

\* C6 (as the claim states it): when the cycle that follows a successful
\* cycle has failed, a reader gets the data of the successful cycle
C6_StaleSnapshotKept ==
    [][(/\ hist.good
        /\ hist.last = Err
        /\ snapshot.Timestamp = hist.goodSnap.Timestamp + 1
        /\ \A c \in Collectors : col[c].pc = "idle"
        /\ lastRead' # lastRead)
          => ReadAgrees(lastRead', hist.goodSnap)]_vars

\* the rollup of a snapshot counts the maps of the same snapshot
Consistent(s) ==
    /\ s.ClusterMetrics.TotalNodes = Cardinality(s.NodeMetrics)
    /\ s.ClusterMetrics.TotalPods = Cardinality(s.PodMetrics)

\* C7: the cached snapshot, and every snapshot a reader obtains, has a rollup
\* that counts its own node and workload maps; the cache changes only by one
\* assignment of the finished snapshot of a Collect call (all its sources
\* done, its rollup derived) that holds the write lock, and readers run only
\* while no writer holds the lock
C7_NoPartialSnapshot ==
    /\ [](Consistent(snapshot))
    /\ [](lastRead.api = "GetLatestSnapshot" => Consistent(lastRead.snap))
    /\ [][/\ snapshot' # snapshot =>
               \E c \in Collectors :
                   /\ snapshotMutex = c
                   /\ snapshotMutex' = c
                   /\ col[c].pending = {}
                   /\ snapshot' = col[c].snap
                   /\ Consistent(snapshot')
          /\ <<lastRead.api, lastRead.snap, lastRead.found>>'
                 # <<lastRead.api, lastRead.snap, lastRead.found>>
               => snapshotMutex = "free"
         ]_vars

\* C7 witness: a reader holds the snapshot of the first cycle while the next
\* cycle has filled the node map of its own snapshot and still waits for the
\* workload source
C7_Witness ==
    \E c \in Collectors :
        /\ col[c].pc = "sources"
        /\ col[c].snap.NodeMetrics # {}
        /\ "pod" \in col[c].pending
        /\ lastRead.api = "GetLatestSnapshot"
        /\ lastRead.snap = snapshot
        /\ lastRead.snap.NodeMetrics # {}
        /\ lastRead.snap.ClusterMetrics.TotalPods = 1

\* C8 (as the claim states it): a caller's write to a value a read API
\* returned leaves the cache as it was
C8_ResultsAreCopies ==
    [][CallerMutatesSnapshot => snapshot' = snapshot]_vars

\* the cached uav map with the entry of every pulled node replaced
MergePerNode(cached, pulled) ==
    [n \in DOMAIN cached \cup DOMAIN pulled |->
       IF n \in DOMAIN pulled THEN pulled[n] ELSE cached[n]]

\* C9 (as the claim states it): when a cycle whose pull succeeded publishes,
\* the uav map becomes the previous map with the entry of every pulled node
\* replaced; the entries of the other nodes stay
C9_PullMergesPerNode ==
    [][\A c \in Collectors :
          (col[c].pc = "uav" /\ col'[c].pc = "hb")
             => uavSnapshot' = MergePerNode(uavSnapshot, col[c].uavMetrics.m)]_vars

\* both stores hold the push of request r
Reflects(r) ==
    /\ rq[r].report.NodeName \in DOMAIN uavSnapshot
    /\ uavSnapshot[rq[r].report.NodeName].state = rq[r].report.State
    /\ ResourceName(rq[r].report) \in DOMAIN crd
    /\ crd[ResourceName(rq[r].report)].spec.state = rq[r].report.State

\* C10 (as the claim states it): once two requests for the same node have
\* both completed with their upsert done, the in-memory entry and the custom
\* resource of the node hold the push of one and the same request
C10_LastWriteWinsBothStores ==
    (\A r \in Reqs :
        /\ rq[r].pc = "returned"
        /\ rq[r].crdStatus = "updated"
        /\ rq[r].report.NodeName = N1)
      => \E r \in Reqs : Reflects(r)

\* node names that differ only in letter case or in '_', '.' and '-'
NUpper == <<"N", "1">>
NUnder == <<"n", "_", "1">>
NDash == <<"n", "-", "1">>

\* pushes for pairwise distinct node names
NamePushes ==
    {MkReport(N1, <<>>, ZeroTime, StateOf(10)),
     MkReport(NUpper, <<>>, ZeroTime, StateOf(20)),
     MkReport(NUnder, <<>>, ZeroTime, StateOf(30)),
     MkReport(NDash, <<>>, ZeroTime, StateOf(40)),
     MkReport(N2, <<>>, ZeroTime, StateOf(50))}

\* a request to the report endpoint that carries one of NamePushes
NameHandlerStep(r) ==
    \/ \E report \in NamePushes : HandlerReceive(r, report)
    \/ ReportLock(r)
    \/ ReportStore(r)
    \/ ReportHeartbeat(r)
    \/ ReportUnlock(r)
    \/ HandlerUpsert(r)
    \/ UpsertGet(r)
    \/ UpsertCreate(r)
    \/ UpsertUpdate(r)

\* SpecNames: two requests to the report endpoint, concurrent or one after
\* the other, for node names that can differ only in case or punctuation
NextNames == \E r \in Reqs : NameHandlerStep(r)

SpecNames == InitIngestion /\ [][NextNames]_vars

\* C11 (as the claim states it): a push for one node never touches what is
\* stored for another node: an in-memory entry changes only to an entry of
\* the same node, and a custom resource that exists keeps the node it was
\* written for
C11_DistinctNodesNeverConflict ==
    [][/\ \A n \in DOMAIN uavSnapshot :
             /\ n \in DOMAIN uavSnapshot'
             /\ uavSnapshot'[n].node_name = n
       /\ \A k \in DOMAIN crd :
             /\ k \in DOMAIN crd'
             /\ crd'[k].spec.node_name = crd[k].spec.node_name
      ]_vars

\* ------------------------------------------- the same report pushed twice

\* part_000 line 595: time.Now() read by a later request returns a later time
ClockTick ==
    /\ ~crashed
    /\ now < MaxTime
    /\ now' = now + 1
    /\ UNCHANGED <<cfgVars, lifeVars, cacheVars, snapshotMutex, crashed,
                   col, hist, lastRead, ingestVars, notIngest>>

\* reports with and without a timestamp of their own
TwicePushes ==
    {MkReport(N1, <<>>, 1, StateOf(10)),
     MkReport(N1, <<>>, ZeroTime, StateOf(20)),
     MkReport(N2, <<"u", "2">>, 3, StateOf(30))}

\* the steps of one request after its report is decoded
RequestSteps(r) ==
    \/ ReportLock(r) \/ ReportStore(r) \/ ReportHeartbeat(r) \/ ReportUnlock(r)
    \/ HandlerUpsert(r) \/ UpsertGet(r) \/ UpsertCreate(r) \/ UpsertUpdate(r)

\* the first request carries any report
FirstIngest == \E report \in TwicePushes : HandlerReceive("r1", report)

\* the second request arrives after the first has been answered and carries
\* the same body
SecondIngest ==
    /\ rq["r1"].pc = "returned"
    /\ HandlerReceive("r2", rq["r1"].raw)

InitTwice ==
    /\ InitManager({"node", "pod"}, {1})
    /\ InitIngest(TRUE, TRUE, EmptyMap)
    /\ InitScheduler(EmptyMap)
    /\ InitWatcher
    /\ InitCalls

NextTwice ==
    \/ FirstIngest
    \/ SecondIngest
    \/ \E r \in Reqs : RequestSteps(r)
    \/ ClockTick

SpecTwice == InitTwice /\ [][NextTwice]_vars

\* what ingestion stores: the entries, the heartbeats and each custom
\* resource's spec, status and labels (the resource version is the server's)
StoredData ==
    <<uavSnapshot, uavLastHeartbeat,
      [k \in DOMAIN crd |-> [spec |-> crd[k].spec, status |-> crd[k].status,
                             labels |-> crd[k].labels]]>>

\* the first ingestion has completed and persisted its report
FirstIngested == rq["r1"].pc = "returned" /\ rq["r1"].crdStatus = "updated"

\* C12 (amended): once a report that carries its own timestamp has been
\* ingested, no step of a second ingestion of the same report changes the
\* in-memory entry, the heartbeat or the custom resource's spec, status and
\* labels.
C12_StampedReingestIdempotent ==
    [][(FirstIngested /\ rq["r1"].raw.Timestamp # ZeroTime)
         => StoredData' = StoredData]_vars

\* C12 (as the claim states it): once any report has been ingested, no step of
\* a second ingestion of the same report changes the in-memory entry, the
\* heartbeat or the custom resource's spec, status and labels.
C12_ReingestIdempotent ==
    [][FirstIngested => StoredData' = StoredData]_vars

\* C12 witness: a stamped report went through both ingestions and the second
\* one updated the resource the first one created.
C12_Witness ==
    /\ FirstIngested
    /\ rq["r1"].raw.Timestamp # ZeroTime
    /\ rq["r2"].pc = "returned"
    /\ rq["r2"].crdStatus = "updated"
    /\ rq["r2"].raw = rq["r1"].raw
    /\ now > 2
    /\ crd[ResourceName(rq["r1"].report)].rv = 2

\* ------------------------------------------- the response of the handler

\* SpecOutcome: two requests to the report endpoint of a server started with
\* or without the aggregator and with or without the cluster client, over a
\* store that is empty or already holds the node's resource
InitOutcome ==
    /\ InitManager({"node", "pod"}, {1})
    /\ \E withManager \in BOOLEAN, withK8s \in BOOLEAN, store \in {EmptyMap, OneUAVStore} :
         InitIngest(withManager, withK8s, store)
    /\ InitScheduler(EmptyMap)
    /\ InitWatcher
    /\ InitCalls

SpecOutcome == InitOutcome /\ [][NextIngest]_vars

\* the step in which request r is answered
Completes(r) == rq[r].pc # "returned" /\ rq'[r].pc = "returned"

\* no other request has written, or is about to write, the entry of r's node
NoOtherWriter(r) ==
    \A o \in Reqs \ {r} :
       rq[o].pc = "idle" \/ rq[o].raw.NodeName # rq[r].raw.NodeName

\* the response codes of a request with a node name, and the resource written
\* with "updated"
ResponseMatchesUpsert(r) ==
    LET name == ResourceName(rq'[r].report) IN
    /\ rq'[r].crdStatus \in {"updated", "error", "unavailable"}
    /\ rq'[r].crdStatus = "unavailable" <=> ~deps.k8s
    /\ rq'[r].crdStatus = "error" <=> (deps.k8s /\ crd' = crd)
    /\ rq'[r].crdStatus = "updated" <=>
         /\ deps.k8s
         /\ name \in DOMAIN crd'
         /\ crd'[name].spec = SpecOf(rq'[r].report)
         /\ crd'[name].status = StatusPayload(rq'[r].report, rq'[r].reportTime)
         /\ (name \notin DOMAIN crd \/ crd'[name].rv = crd[name].rv + 1)

\* the cache entry of r's node is the one built from r's report
CacheReflects(r) ==
    /\ rq'[r].report.NodeName \in DOMAIN uavSnapshot'
    /\ uavSnapshot'[rq'[r].report.NodeName] =
         AgentEntry(rq'[r].report, rq'[r].reportTime)
    /\ uavLastHeartbeat'[rq'[r].report.NodeName] = rq'[r].reportTime

\* a rejected request leaves the cache and the resources alone
Rejected(r) ==
    /\ rq[r].pc = "idle"
    /\ rq'[r].crdStatus = "badRequest"
    /\ UNCHANGED <<cacheVars, crd>>

MaxWrites == 3

\* reports of one node, with timestamps in different seconds
UpsertPushes ==
    {MkReport(N1, <<>>, 1, StateOf(10)),
     MkReport(N1, <<"u", "1">>, 2, StateOf(20)),
     MkReport(N1, <<>>, 4, StateOf(30))}

\* the connection of an answered request carries the next request
NextCall(r) ==
    /\ ~crashed
    /\ rq[r].pc = "returned"
    /\ \A k \in DOMAIN crd : crd[k].rv < MaxWrites
    /\ rq' = [rq EXCEPT ![r] = IdleReq]
    /\ UNCHANGED <<cfgVars, lifeVars, cacheVars, snapshotMutex, crashed, now,
                   col, hist, lastRead, deps, crd, notIngest>>

\* a call of UpsertUAVMetric from the handler of a server without aggregator
UpsertStep(r) ==
    \/ \E report \in UpsertPushes : HandlerReceive(r, report)
    \/ HandlerUpsert(r)
    \/ UpsertGet(r)
    \/ UpsertCreate(r)
    \/ UpsertUpdate(r)
    \/ NextCall(r)

InitUpsert ==
    /\ InitManager({"node", "pod"}, {1})
    /\ InitIngest(FALSE, TRUE, EmptyMap)
    /\ InitScheduler(EmptyMap)
    /\ InitWatcher
    /\ InitCalls

NextUpsert == \E r \in Reqs : UpsertStep(r)

SpecUpsert == InitUpsert /\ [][NextUpsert]_vars

\* the call of request r returns nil in this step
UpsertSucceeds(r) == Completes(r) /\ rq'[r].crdStatus = "updated"

\* a successful call creates the resource when the name is free and updates
\* it in place otherwise; nothing else in the store moves
CreatedOrUpdatedInPlace(r) ==
    LET name == ResourceName(rq[r].report) IN
    /\ name = <<"uavmetric-">> \o sanitizeResourceName(rq[r].raw.NodeName)
    /\ DOMAIN crd' = DOMAIN crd \cup {name}
    /\ \A k \in DOMAIN crd \ {name} : crd'[k] = crd[k]
    /\ crd'[name].spec = SpecOf(rq[r].report)
    /\ crd'[name].status = StatusPayload(rq[r].report, rq[r].reportTime)
    /\ IF name \in DOMAIN crd
         THEN rq[r].pc = "update" /\ crd'[name].rv = crd[name].rv + 1
         ELSE rq[r].pc = "create" /\ crd'[name].rv = 1

\* C14: the store never holds more than the one resource uavmetric-n1; a
\* successful call creates it when absent and updates it in place otherwise,
\* leaving it with the spec and status derived from that call's report; every
\* other step, a failed lookup included, leaves the store as it was.
C14_UpsertCreateOrUpdate ==
    /\ [](DOMAIN crd \subseteq {<<"uavmetric-", "n", "1">>})
    /\ [][\A r \in Reqs : UpsertSucceeds(r) => CreatedOrUpdatedInPlace(r)]_vars
    /\ [][(\A r \in Reqs : ~UpsertSucceeds(r)) => crd' = crd]_vars
    /\ [][\A r \in Reqs : (rq[r].pc = "get" /\ Completes(r)) =>
            (rq'[r].crdStatus = "error" /\ crd' = crd)]_vars

\* C14 witness: three successful calls, the first created the resource and
\* the later ones updated it; it carries the last report.
C14_Witness ==
    /\ DOMAIN crd = {<<"uavmetric-", "n", "1">>}
    /\ crd[<<"uavmetric-", "n", "1">>].rv = 3
    /\ rq["r1"].pc = "returned" /\ rq["r1"].crdStatus = "updated"
    /\ crd[<<"uavmetric-", "n", "1">>].spec = SpecOf(rq["r1"].report)
    /\ crd[<<"uavmetric-", "n", "1">>].status =
         StatusPayload(rq["r1"].report, rq["r1"].reportTime)
    /\ rq["r2"].pc = "returned" /\ rq["r2"].crdStatus = "error"

\* ------------------------------------------------ the reconciler's passes

\* the step that ends a pass in which every listed request was visited
PassEnds == rpc = "process" /\ rpc' = "wait"

\* the listed requests whose phase was unset, empty or Pending
PendingVisited ==
    {i \in 1..Len(ritems) : ritems[i].obj.status.phase \in {"", "Pending"}}

\* C15 (as the claim states it): when a pass ends, every request it visited
\* with an unset, empty or Pending phase has the phase Assigned or Failed.
C15_PendingLeavesPending ==
    [][PassEnds => \A i \in PendingVisited :
          sreq'[ritems[i].name].status.phase \in {"Assigned", "Failed"}]_vars

\* ------------------------------------------- requests that were decided

\* a request that asks for 70 percent and one that asks for nothing; the
\* second starts with the given phase
AbsorbRequests(phase) ==
    [q \in {"qa", "qb"} |->
       IF q = "qa"
         THEN Request(TRUE, "w", "ns", Float64(70), {})
         ELSE [Request(TRUE, "w", "ns", Int64(0), {N2})
                 EXCEPT !.status.phase = phase,
                        !.status.assignedNode = IF phase = "Assigned" THEN N1 ELSE EmptyName]]

\* the report of a uav with a full battery on node N2, and a report that
\* raises the battery of the uav on node N1
AbsorbPushes ==
    {MkReport(N2, <<"u", "2">>, 1, StateOf(90)),
     MkReport(N1, <<"u", "1">>, 1, StateOf(95))}

\* SpecAbsorb: the reconciler's passes over two requests while the clock
\* advances and a uav resource is being created or updated
InitAbsorb ==
    /\ InitManager({"node", "pod"}, {1})
    /\ InitIngest(FALSE, TRUE, OneUAVStore)
    /\ \E phase \in {"Pending", "Assigned"} : InitScheduler(AbsorbRequests(phase))
    /\ InitWatcher
    /\ InitCalls

NextAbsorb ==
    \/ ReconcilerStep
    \/ ClockTick
    \/ \E report \in AbsorbPushes : HandlerReceive("r1", report)
    \/ HandlerUpsert("r1")
    \/ UpsertGet("r1")
    \/ UpsertCreate("r1")
    \/ UpsertUpdate("r1")

SpecAbsorb == InitAbsorb /\ [][NextAbsorb]_vars

\* C16: no step changes any status field of a request whose phase is
\* Assigned or Failed.
C16_DecidedIsAbsorbing ==
    [][\A q \in DOMAIN sreq :
          sreq[q].status.phase \in {"Assigned", "Failed"} =>
             sreq'[q].status = sreq[q].status]_vars

\* C16 witness: the request asking for 70 percent was marked Failed when only
\* the 60 percent uav existed; a later pass, at a later time, listed it again
\* together with the 90 percent uav, visited it and left it Failed.
C16_Witness ==
    /\ sreq["qa"].status.phase = "Failed"
    /\ rpass.prev = Nil
    /\ rpc = "process"
    /\ ridx > Len(ritems)
    /\ \E i \in 1..Len(ritems) :
          ritems[i].name = "qa" /\ ritems[i].obj.status.phase = "Failed"
    /\ \E i \in 1..Len(ruavs) : ruavs[i].spec.node_name = N2
    /\ FormatRFC3339(now) > sreq["qa"].status.lastUpdated

\* ------------------------------------------------ the outcome of a visit

\* a uavmetrics object with the given node name, uav id, battery percent and
\* status.collection_status
UAVObject(node, id, battery, collectionStatus) ==
    [NewObject(MkReport(node, id, 1, StateOf(battery)), 1)
       EXCEPT !.status.collection_status = collectionStatus]

\* the uav resources a cluster may hold, by resource name
UAVUniverse ==
    [k \in {<<"u", "a">>, <<"u", "b">>, <<"u", "c">>, <<"u", "d">>, <<"u", "e">>} |->
       CASE k = <<"u", "a">> -> UAVObject(N1, <<"a">>, 65, "active")
         [] k = <<"u", "b">> -> UAVObject(N2, <<"b">>, 70, "")
         [] k = <<"u", "c">> -> UAVObject(EmptyName, <<"c">>, 90, "active")
         [] k = <<"u", "d">> -> UAVObject(NDash, <<"d">>, 95, "error")
         [] k = <<"u", "e">> -> UAVObject(NUpper, <<"e">>, 60, "ACTIVE")]

\* the greatest number of uav resources in a store
MaxUAVs == 3

UAVStores ==
    {[k \in S |-> UAVUniverse[k]] :
        S \in {T \in SUBSET DOMAIN UAVUniverse : Cardinality(T) <= MaxUAVs}}

\* the pending requests a pass may visit
PendingRequests ==
    {Request(TRUE, w[1], w[2], minBattery, preferred) :
        w \in {<<"w", "ns">>, <<"", "ns">>, <<"w", "">>},
        minBattery \in {Int64(0), Float64(0), Int64(70), Float64(70)},
        preferred \in {{}, {NUpper}}}
    \cup {Request(FALSE, "", "", Int64(0), {})}

\* SpecAssign: the reconciler over one pending request and a store of uav
\* resources, both drawn from the sets above
InitAssign ==
    /\ InitManager({"node", "pod"}, {1})
    /\ \E store \in UAVStores : InitIngest(FALSE, TRUE, store)
    /\ \E req \in PendingRequests : InitScheduler([q \in {"q1"} |-> req])
    /\ InitWatcher
    /\ InitCalls

SpecAssign == InitAssign /\ [][ReconcilerStep]_vars

\* the status of request q is written in this step
StatusWritten(q) == rpc = "process" /\ sreq'[q].status # sreq[q].status

\* a uav resource that meets the request as the claim words it: a node name,
\* a collection status that is empty or active, and at least the requested
\* battery when the request asks for any, whatever the type of that number
EligibleUAV(spec, uav) ==
    /\ uav.spec.node_name # EmptyName
    /\ LowerStatus(uav.status.collection_status) \in {"", "active"}
    /\ spec.minBatteryPercent.v > 0 => BatteryOf(uav) >= spec.minBatteryPercent.v

\* C17 (as the claim states it): a status written for a pending request is
\* Failed when the workload name or namespace is empty; otherwise it is
\* Assigned, to the node and uav of an eligible resource, exactly when the
\* listing holds an eligible resource, and Failed without a node when it
\* holds none.
C17_OutcomeFunction ==
    [][\A q \in DOMAIN sreq : StatusWritten(q) =>
         LET spec == ritems[ridx].obj.spec
             st == sreq'[q].status
             elig == {i \in 1..Len(ruavs) : EligibleUAV(spec, ruavs[i])}
         IN IF spec.workloadName = "" \/ spec.workloadNamespace = ""
              THEN st.phase = "Failed"
            ELSE IF elig # {}
              THEN /\ st.phase = "Assigned"
                   /\ \E i \in elig : /\ st.assignedNode = ruavs[i].spec.node_name
                                      /\ st.assignedUAV = ruavs[i].spec.uav_id
            ELSE st.phase = "Failed" /\ st.assignedNode = EmptyName]_vars

\* ------------------------------------------------- the chosen candidate

\* a listed uav resource that buildCandidates keeps for the request
Kept(spec, uav) ==
    /\ uav.spec.node_name # EmptyName
    /\ LowerStatus(uav.status.collection_status) \in {"", "active"}
    /\ ParseSpec(spec).minBatteryPercent > 0 =>
          BatteryOf(uav) >= ParseSpec(spec).minBatteryPercent

\* battery percent, plus 10 for a node named in preferredNodes in any case
ScoreOf(spec, uav) ==
    BatteryOf(uav) +
      (IF \E p \in spec.preferredNodes : LowerName(p) = LowerName(uav.spec.node_name)
         THEN 10 ELSE 0)

\* C18: when the status of a request with a workload is written and the
\* listing holds candidates, the request is assigned to a candidate whose
\* score (battery plus 10 for a preferred node, names compared without case)
\* is the greatest, the earliest such candidate in the listing, and the
\* status carries that score.
C18_MaxScoreFirstInListing ==
    [][\A q \in DOMAIN sreq : StatusWritten(q) =>
         LET spec == ritems[ridx].obj.spec
             st == sreq'[q].status
             cands == {i \in 1..Len(ruavs) : Kept(spec, ruavs[i])}
         IN (spec.workloadName # "" /\ spec.workloadNamespace # "" /\ cands # {}) =>
              /\ st.phase = "Assigned"
              /\ \E i \in cands :
                    /\ st.assignedNode = ruavs[i].spec.node_name
                    /\ st.assignedUAV = ruavs[i].spec.uav_id
                    /\ st.score = ScoreOf(spec, ruavs[i])
                    /\ \A j \in cands : ScoreOf(spec, ruavs[j]) <= ScoreOf(spec, ruavs[i])
                    /\ \A j \in cands : j < i =>
                          ScoreOf(spec, ruavs[j]) < ScoreOf(spec, ruavs[i])]_vars

\* C18 witness: two candidates tie at 70, one of them through the bonus of a
\* preferred node written in another case, a third resource is discarded for
\* its collection status; the request is assigned to the first of the two in
\* the listing, with score 70.
C18_Witness ==
    /\ sreq["q1"].status.phase = "Assigned"
    /\ sreq["q1"].status.score = 70
    /\ sreq["q1"].spec.preferredNodes = {NUpper}
    /\ Len(ruavs) = 3
    /\ \E i, j, k \in 1..3 :
          /\ i < j /\ k \notin {i, j}
          /\ ruavs[i].spec.node_name = NUpper
          /\ ruavs[j].spec.node_name = N2
          /\ ruavs[k].spec.node_name = NDash
          /\ ScoreOf(sreq["q1"].spec, ruavs[i]) = 70
          /\ ScoreOf(sreq["q1"].spec, ruavs[j]) = 70
          /\ sreq["q1"].status.assignedUAV = ruavs[i].spec.uav_id

\* ------------------------------------------- cancelling the reconciler

\* SpecShutdown: the reconciler's loop and the cancellation of the context
\* that cmd/scheduler passes to Run
InitShutdown ==
    /\ InitManager({"node", "pod"}, {1})
    /\ InitIngest(FALSE, TRUE, OneUAVStore)
    /\ InitScheduler(LoopRequests)
    /\ InitWatcher
    /\ InitCalls

NextShutdown ==
    \/ ReconcilerStep
    \/ RunCtxDone
    \/ CancelRunCtx

SpecShutdown == InitShutdown /\ [][NextShutdown]_vars

\* the step in which Run calls reconcile again
PassStarts == rpc = "wait" /\ rpc' = "reconcile"

\* C19 (as the claim states it, the reconciler's part): once the context is
\* cancelled the reconciler starts no new pass.
C19_NoPassAfterCancel ==
    [][rctxDone => ~PassStarts]_vars

\* --------------------------------------------------- the watch fabric
\* watcher.go, crd_watcher.go: each stream loop opens a stream, handles its
\* events until the stream ends, sleeps five seconds and starts over.  The
\* instance loops of the custom kinds share two maps of the CRDWatcher,
\* crdWatchers and customResources, which no lock protects.

\* the loops that are inside a write of cw.crdWatchers / cw.customResources
InWatchersWrite == {s \in CustomStreams : wpc[s] \in {"registering", "unregistering"}}
InCacheWrite == {s \in CustomStreams : wpc[s] = "caching"}

\* an unsynchronised map access that overlaps a write of another goroutine:
\* the runtime may end the process ("concurrent map writes", "concurrent map
\* read and map write") or may not notice
RacyAccess(s, writers, next) ==
    \/ /\ wpc' = [wpc EXCEPT ![s] = next]
       /\ UNCHANGED wfatal
    \/ /\ writers \ {s} # {}
       /\ wfatal' = TRUE
       /\ UNCHANGED wpc

\* the result channels after watcher.Stop() on the stream stored for kind k
StopStored(k) ==
    IF wreg[k] = "none" THEN wchan
    ELSE [wchan EXCEPT ![wreg[k]] = IF @ = "open" THEN "closed" ELSE @]

\* watchCustomResource, lines 205-213: the lookup of the kind's stored
\* stream, which is stopped when there is one
WatchStart(s) ==
    /\ ~wfatal
    /\ s \in CustomStreams
    /\ wpc[s] = "start"
    /\ RacyAccess(s, InWatchersWrite, "loop")
    /\ wchan' = IF wfatal' THEN wchan ELSE StopStored(KindOf(s))
    /\ UNCHANGED <<notWatch, wdef, wreg, wevent, wseen, wctxDone, wstopCh>>

\* watchPods lines 76-87, watchCustomResource lines 218-226: the select with a
\* default case at the top of the loop
LoopSelect(s) ==
    /\ ~wfatal
    /\ wpc[s] = "loop"
    /\ wpc' = [wpc EXCEPT ![s] =
                 IF wctxDone \/ (s \in CoreStreams /\ wstopCh) THEN "stopped" ELSE "open"]
    /\ UNCHANGED <<notWatch, wdef, wreg, wchan, wevent, wseen,
                   wctxDone, wstopCh, wfatal>>

\* doWatchPods lines 91-96, doWatchCustomResource lines 231-245: Watch; it
\* fails with a cancelled context, for a custom kind whose definition is not
\* established, and can fail otherwise
WatchOpen(s) ==
    /\ ~wfatal
    /\ wpc[s] = "open"
    /\ \/ /\ ~wctxDone
          /\ s \in CustomStreams => wdef[KindOf(s)] = "established"
          /\ wchan' = [wchan EXCEPT ![s] = "open"]
          /\ wevent' = [wevent EXCEPT ![s] = FALSE]
          /\ wseen' = [wseen EXCEPT ![s] = FALSE]
          /\ wpc' = [wpc EXCEPT ![s] = IF s \in CustomStreams THEN "register" ELSE "watch"]
       \/ /\ wpc' = [wpc EXCEPT ![s] = "sleep"]
          /\ UNCHANGED <<wchan, wevent, wseen>>
    /\ UNCHANGED <<notWatch, wdef, wreg, wctxDone, wstopCh, wfatal>>

\* a write of one of the two maps begins: cw.crdWatchers[gvr] = watcher (line
\* 247), delete(cw.crdWatchers, gvr) (line 250), cw.customResources[key] = ...
\* (lines 360-381)
MapWriteBegin(s) ==
    /\ ~wfatal
    /\ s \in CustomStreams
    /\ wpc[s] \in {"register", "unregister", "cache"}
    /\ CASE wpc[s] = "register" -> RacyAccess(s, InWatchersWrite, "registering")
         [] wpc[s] = "unregister" -> RacyAccess(s, InWatchersWrite, "unregistering")
         [] wpc[s] = "cache" -> RacyAccess(s, InCacheWrite, "caching")
    /\ UNCHANGED <<notWatch, wdef, wreg, wchan, wevent, wseen,
                   wctxDone, wstopCh>>

\* the write ends; after the cache update the event goes to the handler
\* (lines 283-293), after the deferred delete the loop sleeps
MapWriteEnd(s) ==
    /\ ~wfatal
    /\ s \in CustomStreams
    /\ wpc[s] \in {"registering", "unregistering", "caching"}
    /\ wpc' = [wpc EXCEPT ![s] = CASE wpc[s] = "registering" -> "watch"
                                   [] wpc[s] = "unregistering" -> "sleep"
                                   [] wpc[s] = "caching" -> "watch"]
    /\ wseen' = [wseen EXCEPT ![s] = IF wpc[s] = "caching" THEN TRUE ELSE @]
    /\ wreg' = CASE wpc[s] = "registering" -> [wreg EXCEPT ![KindOf(s)] = s]
                 [] wpc[s] = "unregistering" -> [wreg EXCEPT ![KindOf(s)] = "none"]
                 [] wpc[s] = "caching" -> wreg
    /\ UNCHANGED <<notWatch, wdef, wchan, wevent, wctxDone, wstopCh, wfatal>>

\* the select inside doWatch..., case <-ctx.Done() and case <-w.stopCh
WatchCancelled(s) ==
    /\ ~wfatal
    /\ wpc[s] = "watch"
    /\ wctxDone \/ (s \in CoreStreams /\ wstopCh)
    /\ wpc' = [wpc EXCEPT ![s] = "return"]
    /\ UNCHANGED <<notWatch, wdef, wreg, wchan, wevent, wseen,
                   wctxDone, wstopCh, wfatal>>

\* case event, ok := <-watcher.ResultChan() with ok: the core loop hands the
\* object to the handler, the instance loop updates its cache first
WatchEvent(s) ==
    /\ ~wfatal
    /\ wpc[s] = "watch"
    /\ wevent[s]
    /\ wevent' = [wevent EXCEPT ![s] = FALSE]
    /\ IF s \in CoreStreams
         THEN wseen' = [wseen EXCEPT ![s] = TRUE] /\ UNCHANGED wpc
         ELSE wpc' = [wpc EXCEPT ![s] = "cache"] /\ UNCHANGED wseen
    /\ UNCHANGED <<notWatch, wdef, wreg, wchan, wctxDone, wstopCh,
                   wfatal>>

\* case event, ok := <-watcher.ResultChan() with !ok: the stream has ended
WatchClosed(s) ==
    /\ ~wfatal
    /\ wpc[s] = "watch"
    /\ wchan[s] = "closed"
    /\ ~wevent[s]
    /\ wpc' = [wpc EXCEPT ![s] = "return"]
    /\ UNCHANGED <<notWatch, wdef, wreg, wchan, wevent, wseen,
                   wctxDone, wstopCh, wfatal>>

\* the deferred watcher.Stop() (and, for an instance loop, the delete)
WatchReturn(s) ==
    /\ ~wfatal
    /\ wpc[s] = "return"
    /\ wchan' = [wchan EXCEPT ![s] = "none"]
    /\ wevent' = [wevent EXCEPT ![s] = FALSE]
    /\ wpc' = [wpc EXCEPT ![s] = IF s \in CustomStreams THEN "unregister" ELSE "sleep"]
    /\ UNCHANGED <<notWatch, wdef, wreg, wseen, wctxDone, wstopCh,
                   wfatal>>

\* time.Sleep(5 * time.Second) is over
BackoffOver(s) ==
    /\ ~wfatal
    /\ wpc[s] = "sleep"
    /\ wpc' = [wpc EXCEPT ![s] = "loop"]
    /\ UNCHANGED <<notWatch, wdef, wreg, wchan, wevent, wseen,
                   wctxDone, wstopCh, wfatal>>

\* the server sends an event on an open stream
EventArrives(s) ==
    /\ ~wfatal
    /\ wchan[s] = "open"
    /\ ~wevent[s]
    /\ wevent' = [wevent EXCEPT ![s] = TRUE]
    /\ UNCHANGED <<notWatch, wdef, wreg, wpc, wchan, wseen,
                   wctxDone, wstopCh, wfatal>>

\* the server, or the connection, ends an open stream
StreamCloses(s) ==
    /\ ~wfatal
    /\ wchan[s] = "open"
    /\ wchan' = [wchan EXCEPT ![s] = "closed"]
    /\ UNCHANGED <<notWatch, wdef, wreg, wpc, wevent, wseen,
                   wctxDone, wstopCh, wfatal>>

\* the owner of the watchers' context cancels it
CancelWatchCtx ==
    /\ ~wfatal
    /\ ~wctxDone
    /\ wctxDone' = TRUE
    /\ UNCHANGED <<notWatch, wdef, wreg, wpc, wchan, wevent, wseen,
                   wstopCh, wfatal>>

\* Watcher.Stop, lines 54-57: close(w.stopCh); closing it twice panics
WatcherStop ==
    /\ ~wfatal
    /\ IF wstopCh
         THEN wfatal' = TRUE /\ UNCHANGED wstopCh
         ELSE wstopCh' = TRUE /\ UNCHANGED wfatal
    /\ UNCHANGED <<notWatch, wdef, wreg, wpc, wchan, wevent, wseen,
                   wctxDone>>

\* doWatchCRDs, lines 106-122: the definition watch delivers Added for a
\* definition and starts an instance loop for its kind; the definition is one
\* that has just been created, established or not yet, or one that was there
\* when the watch began
SpawnOnAdded(s, established) ==
    /\ ~wfatal
    /\ wpc[s] = "unspawned"
    /\ \/ wdef[KindOf(s)] = "absent"
       \/ established /\ wdef[KindOf(s)] = "established"
    /\ wpc' = [wpc EXCEPT ![s] = "start"]
    /\ wdef' = [wdef EXCEPT ![KindOf(s)] = IF established THEN "established" ELSE "pending"]
    /\ UNCHANGED <<notWatch, wreg, wchan, wevent, wseen, wctxDone, wstopCh, wfatal>>

\* doWatchCRDs, lines 106-135: the definition watch delivers Modified for a
\* definition that has become established; no instance loop is started
DefinitionModified(k) ==
    /\ ~wfatal
    /\ wdef[k] = "pending"
    /\ wdef' = [wdef EXCEPT ![k] = "established"]
    /\ UNCHANGED <<notWatch, wreg, wpc, wchan, wevent, wseen, wctxDone, wstopCh, wfatal>>

\* doWatchCRDs, lines 137-156: the definition watch delivers Deleted for the
\* definition of kind k; the stored stream is stopped and its entry deleted,
\* an unsynchronised access like the instance loops'
DefinitionDeleted(k) ==
    /\ ~wfatal
    /\ wdef[k] # "absent"
    /\ \/ /\ wchan' = StopStored(k)
          /\ wreg' = [wreg EXCEPT ![k] = "none"]
          /\ wdef' = [wdef EXCEPT ![k] = "absent"]
          /\ UNCHANGED wfatal
       \/ /\ InWatchersWrite # {}
          /\ wfatal' = TRUE
          /\ UNCHANGED <<wchan, wreg, wdef>>
    /\ UNCHANGED <<notWatch, wpc, wevent, wseen, wctxDone, wstopCh>>

StreamStep(s) ==
    \/ WatchStart(s)
    \/ LoopSelect(s)
    \/ WatchOpen(s)
    \/ MapWriteBegin(s)
    \/ MapWriteEnd(s)
    \/ WatchCancelled(s)
    \/ WatchEvent(s)
    \/ WatchClosed(s)
    \/ WatchReturn(s)
    \/ BackoffOver(s)
    \/ EventArrives(s)
    \/ StreamCloses(s)

\* SpecWatch: the three stream loops, the server that feeds and ends their
\* streams, and the owner that cancels the context or stops the core watcher
InitWatch ==
    /\ InitManager({"node", "pod"}, {1})
    /\ InitIngest(FALSE, TRUE, EmptyMap)
    /\ InitScheduler(EmptyMap)
    /\ InitWatcher
    /\ InitCalls

NextWatch ==
    \/ \E s \in WStreams : StreamStep(s)
    \/ CancelWatchCtx
    \/ WatcherStop

SpecWatch == InitWatch /\ [][NextWatch]_vars

\* the loop of stream s runs no more
LoopEnded(s) == wpc[s] = "stopped" \/ wfatal

\* C20 (as the claim states it, the stopping part): a stream loop has ended
\* only if the context was cancelled or the watcher was stopped.
C20_StopsOnlyOnCancelOrStop ==
    \A s \in WStreams : LoopEnded(s) => (wctxDone \/ wstopCh)

\* SpecFabric: the instance loops of one custom kind, the one startup
\* discovery spawned and the one the definition watch spawns on Added, with
\* the server and the definition watch's Deleted event
FabricStreams == {s \in CustomStreams : KindOf(s) = "k1"}

NextFabric ==
    \/ \E s \in FabricStreams : StreamStep(s)
    \/ \E established \in BOOLEAN : SpawnOnAdded("k1b", established)
    \/ DefinitionModified("k1")
    \/ DefinitionDeleted("k1")
    \/ CancelWatchCtx

SpecFabric == InitWatch /\ [][NextFabric]_vars

\* the instance loops of kind k whose stream is open
OpenStreams(k) == {s \in CustomStreams : KindOf(s) = k /\ wchan[s] = "open"}

\* the instance loops of kind k that have been started and have not ended
LiveLoops(k) ==
    {s \in CustomStreams : KindOf(s) = k /\ wpc[s] \notin {"unspawned", "stopped"}}

\* C21 (as the claim states it, the instance streams): at no time does a
\* custom kind have two open instance streams or two running instance loops.
C21_OneOpenStreamPerKind ==
    \A k \in CustomKinds :
        /\ Cardinality(OpenStreams(k)) <= 1
        /\ wfatal \/ Cardinality(LiveLoops(k)) <= 1

\* ------------------------------------------- the events of a core stream
\* watcher.go, doWatchPods / doWatchServices / doWatchEvents: what the loop
\* does with each event it receives from its stream.  fin holds the stream
\* and the events the server delivers on it, fout the handler calls so far.

MaxEvents == 3

\* watch.EventType
EventTypes == {"ADDED", "MODIFIED", "DELETED", "ERROR"}

\* the objects an event can carry: of each, its kind, its name and one field
\* (Status.Phase, Spec.Type, Reason)
WatchObjects ==
    {[kind |-> "Pod", name |-> "p1", detail |-> "Running"],
     [kind |-> "Service", name |-> "s1", detail |-> "ClusterIP"],
     [kind |-> "Event", name |-> "e1", detail |-> "Killing"]}

WatchEvents == [Type : EventTypes, Object : WatchObjects]

\* converter.go: the domain records; EventInfo does not carry the name
convertPodToModel(pod) == [Name |-> pod.name, Detail |-> pod.detail]
convertServiceToModel(svc) == [Name |-> svc.name, Detail |-> svc.detail]
convertEventToModel(event) == [Name |-> "", Detail |-> event.detail]

\* a call of a method of the EventHandler
HandlerCall(method, record) == [method |-> method, record |-> record]

\* the event the loop receives next
NextEvent == fin.events[fin.next]

\* the receive of the next event, after which the handler calls are calls
Received(calls) ==
    /\ fin.next <= Len(fin.events)
    /\ fin' = [fin EXCEPT !.next = @ + 1]
    /\ fout' = calls
    /\ UNCHANGED <<managerVars, ingestVars, schedVars, watchVars>>

\* doWatchPods, lines 105-124
PodStreamEvent ==
    /\ fin.stream = "pods"
    /\ Received(IF /\ NextEvent.Type \in {"ADDED", "MODIFIED", "DELETED"}
                   /\ NextEvent.Object.kind = "Pod"
                  THEN Append(fout, HandlerCall("OnPodUpdate",
                                                convertPodToModel(NextEvent.Object)))
                  ELSE fout)

\* doWatchServices, lines 160-179
ServiceStreamEvent ==
    /\ fin.stream = "services"
    /\ Received(IF /\ NextEvent.Type \in {"ADDED", "MODIFIED", "DELETED"}
                   /\ NextEvent.Object.kind = "Service"
                  THEN Append(fout, HandlerCall("OnServiceUpdate",
                                                convertServiceToModel(NextEvent.Object)))
                  ELSE fout)

\* doWatchEvents, lines 215-234: only ADDED has a case
EventStreamEvent ==
    /\ fin.stream = "events"
    /\ Received(IF /\ NextEvent.Type = "ADDED"
                   /\ NextEvent.Object.kind = "Event"
                  THEN Append(fout, HandlerCall("OnEvent",
                                                convertEventToModel(NextEvent.Object)))
                  ELSE fout)

\* all sequences over S of length at most n
SeqsUpTo(S, n) == UNION {[1..k -> S] : k \in 0..n}

\* SpecDeliver: one core stream that delivers up to MaxEvents events
InitDeliver ==
    /\ InitManager({"node", "pod"}, {1})
    /\ InitIngest(FALSE, TRUE, EmptyMap)
    /\ InitScheduler(EmptyMap)
    /\ InitWatcher
    /\ fin \in [stream : {"pods", "services", "events"},
                events : SeqsUpTo(WatchEvents, MaxEvents),
                next : {1}]
    /\ fout = <<>>

NextDeliver ==
    \/ PodStreamEvent
    \/ ServiceStreamEvent
    \/ EventStreamEvent

SpecDeliver == InitDeliver /\ [][NextDeliver]_vars

\* the handler call the claim has for an event on a stream, as a sequence of
\* one call, or of none for an event of another type or with another object
CallFor(stream, e) ==
    IF e.Type \notin {"ADDED", "MODIFIED", "DELETED"} THEN <<>>
    ELSE CASE stream = "pods" /\ e.Object.kind = "Pod" ->
                <<HandlerCall("OnPodUpdate", convertPodToModel(e.Object))>>
           [] stream = "services" /\ e.Object.kind = "Service" ->
                <<HandlerCall("OnServiceUpdate", convertServiceToModel(e.Object))>>
           [] stream = "events" /\ e.Object.kind = "Event" ->
                <<HandlerCall("OnEvent", convertEventToModel(e.Object))>>
           [] OTHER -> <<>>

RECURSIVE CallsFor(_, _)
CallsFor(stream, events) ==
    IF events = <<>> THEN <<>>
    ELSE CallFor(stream, Head(events)) \o CallsFor(stream, Tail(events))

\* C22 (as the claim states it): the handler calls made so far on a core
\* stream are, in order, one call with the converted record for each received
\* added, modified or deleted event that carries an object of the stream's type.
C22_OneCallPerEventInOrder ==
    fout = CallsFor(fin.stream, SubSeq(fin.events, 1, fin.next - 1))

\* ------------------------------------------ the communication analysis
\* network.go, AnalyzePodCommunication: the checks run one after the other
\* on the two workloads and append to the issues and solutions of the
\* analysis.  fin holds what the cluster answers to the calls of the checks,
\* fout the analysis under construction.  A confidence is kept in tenths.

MaxTests == 2

\* the two workloads: A has no labels that matter, B is labelled
PodLabelsA == [app |-> "client"]
PodLabelsB == [app |-> "web", tier |-> "front"]

\* the network policies the namespaces can hold: one selects B, one no one
PolicyUniverse ==
    {[Name |-> "np1", PodSelector |-> [app |-> "web"]],
     [Name |-> "np2", PodSelector |-> [app |-> "db"]]}

\* the services B's namespace can hold: one whose selector B's labels
\* satisfy, one of whose two selector keys B has only one with equal value,
\* one without selector
ServiceUniverse ==
    {[Name |-> "full", Selector |-> [app |-> "web", tier |-> "front"]],
     [Name |-> "partial", Selector |-> [app |-> "web", tier |-> "back"]],
     [Name |-> "bare", Selector |-> EmptyMap]}

\* the round-trip times a test can measure, in tenths of a millisecond
RTTValues == {5, 20, 200, 600, 2000}

\* models.RTTResult: a failed test carries no time
RTTResults ==
    {[Success |-> FALSE, RTT |-> 0]} \cup [Success : {TRUE}, RTT : RTTValues]

RECURSIVE SumRTT(_)
SumRTT(results) ==
    IF results = <<>> THEN 0
    ELSE (IF Head(results).Success THEN Head(results).RTT ELSE 0) + SumRTT(Tail(results))

\* assessLatency, with rtt in tenths of a millisecond
assessLatency(rtt) ==
    CASE rtt = 0 -> "unknown"
      [] rtt # 0 /\ rtt < 10 -> "excellent"
      [] rtt >= 10 /\ rtt < 50 -> "good"
      [] rtt >= 50 /\ rtt < 500 -> "fair"
      [] rtt >= 500 /\ rtt < 1000 -> "poor"
      [] OTHER -> "very_poor"

\* calculateStats: the success rate in percent and the average time of the
\* successful tests, both rounded down, and the grade of the average
calculateStats(results) ==
    LET successCount == Len(SelectSeq(results, LAMBDA x : x.Success))
        average == IF successCount > 0 THEN SumRTT(results) \div successCount ELSE 0
    IN IF Len(results) = 0
         THEN [AverageRTT |-> 0, SuccessRate |-> 0, Latency |-> "unknown"]
         ELSE [AverageRTT |-> average,
               SuccessRate |-> IF successCount > 0
                                 THEN (successCount * 100) \div Len(results) ELSE 0,
               Latency |-> assessLatency(average)]

\* doesPolicyAffectPod, doesServiceTargetPod: some key of the selector is a
\* label of the workload with the same value
doesPolicyAffectPod(policy, labels) ==
    \E key \in DOMAIN policy.PodSelector :
        key \in DOMAIN labels /\ labels[key] = policy.PodSelector[key]

doesServiceTargetPod(svc, labels) ==
    \E key \in DOMAIN svc.Selector :
        key \in DOMAIN labels /\ labels[key] = svc.Selector[key]

\* analysis.Issues and analysis.Solutions grow by the same number of entries
WithIssues(analysis, issues) ==
    [analysis EXCEPT !.Issues = @ \o issues,
                     !.Solutions = @ \o [i \in 1..Len(issues) |-> "advice"]]

\* the analysis moves on to the next check
AnalysisStep(from, to, analysis) ==
    /\ fout.pc = from
    /\ fout' = [analysis EXCEPT !.pc = to]
    /\ UNCHANGED <<managerVars, ingestVars, schedVars, watchVars, fin>>

\* checkPodStatus, lines 99-106, for A and then for B
CheckPodStatus ==
    \/ AnalysisStep("podA", "podB",
         WithIssues(fout, IF fin.statusA # "Running" THEN <<"not_running">> ELSE <<>>))
    \/ AnalysisStep("podB", "policies",
         WithIssues(fout, IF fin.statusB # "Running" THEN <<"not_running">> ELSE <<>>))

\* checkNetworkPolicies and analyzeNetworkPolicies, lines 109-195: one issue
\* for each listed policy that affects A or B
CheckNetworkPolicies ==
    AnalysisStep("policies", "services",
      IF fin.policiesErr THEN fout
      ELSE LET affecting == {p \in fin.policies : doesPolicyAffectPod(p, PodLabelsA)
                                                  \/ doesPolicyAffectPod(p, PodLabelsB)}
           IN WithIssues(fout, [i \in 1..Cardinality(affecting) |-> "policy"]))

\* checkServiceConnectivity, lines 211-234
CheckServiceConnectivity ==
    AnalysisStep("services", "dns",
      IF fin.servicesErr THEN fout
      ELSE IF \E svc \in fin.services : doesServiceTargetPod(svc, PodLabelsB) THEN fout
      ELSE WithIssues(fout, <<"no_service">>))

\* checkDNSConnectivity, lines 247-267
CheckDNSConnectivity ==
    AnalysisStep("dns", "rtt",
      IF fin.dns = "down" THEN WithIssues(fout, <<"dns">>) ELSE fout)

\* the issues checkRTTConnectivity adds for a probe result, lines 280-299
ProbeIssues(result) ==
    (IF result.SuccessRate < 50 THEN <<"poor_connectivity">>
     ELSE IF result.SuccessRate < 100 THEN <<"packet_loss">> ELSE <<>>)
    \o (CASE result.Latency \in {"excellent", "good"} -> <<>>
          [] result.Latency = "fair" -> <<"latency_fair">>
          [] result.Latency \in {"poor", "very_poor"} -> <<"high_latency">>
          [] OTHER -> <<>>)

\* checkRTTConnectivity, lines 270-303 (enableRTT is always set, line 29)
CheckRTTConnectivity ==
    AnalysisStep("rtt", "final",
      IF fin.probeErr THEN WithIssues(fout, <<"probe_failed">>)
      ELSE WithIssues(fout, ProbeIssues(calculateStats(fin.RTTResults))))

\* determineFinalStatus, lines 306-315
DetermineFinalStatus ==
    AnalysisStep("final", "done",
      IF Len(fout.Issues) = 0
        THEN [fout EXCEPT !.Status = "connected", !.Confidence = 9,
                          !.Solutions = Append(@, "none_detected")]
        ELSE [fout EXCEPT !.Status = "disconnected", !.Confidence = 7])

\* SpecAnalysis: one analysis of a pair of workloads that both exist, over
\* every combination of answers of the cluster
InitAnalysis ==
    /\ InitManager({"node", "pod"}, {1})
    /\ InitIngest(FALSE, TRUE, EmptyMap)
    /\ InitScheduler(EmptyMap)
    /\ InitWatcher
    /\ fin \in [statusA : {"Running", "Pending"},
                statusB : {"Running", "Pending"},
                policiesErr : BOOLEAN,
                policies : SUBSET PolicyUniverse,
                servicesErr : BOOLEAN,
                services : SUBSET ServiceUniverse,
                dns : {"running", "down", "err"},
                probeErr : BOOLEAN,
                RTTResults : SeqsUpTo(RTTResults, MaxTests)]
    /\ fin.policiesErr => fin.policies = {}
    /\ fin.servicesErr => fin.services = {}
    /\ fin.probeErr => fin.RTTResults = <<>>
    /\ fout = [pc |-> "podA", Status |-> "unknown", Issues |-> <<>>,
               Solutions |-> <<>>, Confidence |-> 0]

NextAnalysis ==
    \/ CheckPodStatus
    \/ CheckNetworkPolicies
    \/ CheckServiceConnectivity
    \/ CheckDNSConnectivity
    \/ CheckRTTConnectivity
    \/ DetermineFinalStatus

SpecAnalysis == InitAnalysis /\ [][NextAnalysis]_vars

\* the service has selector keys, and every one of them is a label of the
\* workload with the same value
TargetsByEveryKey(svc, labels) ==
    /\ DOMAIN svc.Selector # {}
    /\ \A key \in DOMAIN svc.Selector :
         key \in DOMAIN labels /\ labels[key] = svc.Selector[key]

\* the analysis has run its service check on a listing that succeeded
ServicesChecked == fout.pc \in {"dns", "rtt", "final", "done"} /\ ~fin.servicesErr

HasIssue(issue) == \E i \in 1..Len(fout.Issues) : fout.Issues[i] = issue

\* C23 (as the claim states it): once the services of B's namespace have
\* been checked, the issue "no service targeting B" is among the issues
\* exactly when no listed service has selector keys that all are labels of B
\* with equal value.
C23_NoServiceIssueIffNoneTargets ==
    ServicesChecked =>
        (HasIssue("no_service") <=>
            ~ \E svc \in fin.services : TargetsByEveryKey(svc, PodLabelsB))

\* the larger of two integers
MaxOf(a, b) == IF a >= b THEN a ELSE b

\* C24 (as the claim states it): a finished analysis is connected exactly
\* when it has no issue and disconnected otherwise, and its confidence (in
\* tenths) is 9 when connected and otherwise 7 less the number of issues, but
\* at least 3.
C24_StatusAndConfidence ==
    fout.pc = "done" =>
        /\ fout.Status = (IF Len(fout.Issues) = 0 THEN "connected" ELSE "disconnected")
        /\ fout.Confidence =
             (IF Len(fout.Issues) = 0 THEN 9 ELSE MaxOf(3, 7 - Len(fout.Issues)))

\* the issues that the checks before the probe can add
OtherIssues == {"not_running", "policy", "no_service", "dns"}

\* the probe completed, at least half of its tests succeeded and the grade
\* of its average time is neither poor nor very_poor
ProbePasses ==
    /\ ~fin.probeErr
    /\ calculateStats(fin.RTTResults).SuccessRate >= 50
    /\ calculateStats(fin.RTTResults).Latency \notin {"poor", "very_poor"}

\* C25 (as the claim states it): when the probe passes the two thresholds,
\* every issue of the finished analysis comes from another check, and with
\* no such issue the analysis is connected.
C25_ProbeIssuesOnlyByThresholds ==
    (fout.pc = "done" /\ ProbePasses) =>
        /\ \A i \in 1..Len(fout.Issues) : fout.Issues[i] \in OtherIssues
        /\ (\A i \in 1..Len(fout.Issues) : fout.Issues[i] \notin OtherIssues)
              => fout.Status = "connected"

\* ----------------------------------------------------- the network source
\* part_007, NetworkMetricsCollector: CollectNetworkMetrics selects pairs
\* of workloads and tests every pair; the tests run concurrently and their
\* records are collected in the order in which they complete.  fin holds the
\* configuration and the workloads of the cluster in listing order, fout the
\* call in progress.  Times are in tenths of a millisecond.

MaxPods == 3
MaxPairs == 3

\* the workloads the cluster can hold at each place of the listing
ClusterPods(i) ==
    [Name : {i}, Node : {"n1", "n2"}, Phase : {"Running", "Pending"}, IP : {"", "ip"}]
        \ [Name : {i}, Node : {"n1", "n2"}, Phase : {"Pending"}, IP : {""}]

\* Pods(namespace).List with the field selector status.phase=Running
ListRunning(pods) == SelectSeq(pods, LAMBDA p : p.Phase = "Running")

\* the pairs of places (i, j), i < j, of a list of n workloads, in the order
\* of the two nested loops
RECURSIVE LoopPairs(_, _, _)
LoopPairs(i, j, n) ==
    IF i >= n THEN <<>>
    ELSE IF j > n THEN LoopPairs(i + 1, i + 2, n)
    ELSE <<(<<i, j>>)>> \o LoopPairs(i, j + 1, n)

\* the first n elements of a sequence
Take(seq, n) == SubSeq(seq, 1, IF Len(seq) < n THEN Len(seq) ELSE n)

PodPair(source, target) ==
    [SourcePod |-> source.Name, SourceIP |-> source.IP,
     TargetPod |-> target.Name, TargetIP |-> target.IP,
     CrossNode |-> source.Node # target.Node]

\* selectPodPairs, lines 134-206: the pairs on different nodes up to the
\* maximum, and the pairs of any nodes only when there is none of those
selectPodPairs(enableAutoTest, listing, maxPodPairs) ==
    LET allPods == SelectSeq(ListRunning(listing), LAMBDA p : p.IP # "")
        all == [k \in 1..Len(LoopPairs(1, 2, Len(allPods))) |->
                  PodPair(allPods[LoopPairs(1, 2, Len(allPods))[k][1]],
                          allPods[LoopPairs(1, 2, Len(allPods))[k][2]])]
        cross == Take(SelectSeq(all, LAMBDA p : p.CrossNode), maxPodPairs)
    IN IF ~enableAutoTest THEN <<>>
       ELSE IF Len(allPods) < 2 THEN <<>>
       ELSE IF Len(cross) = 0 THEN Take(all, maxPodPairs)
       ELSE cross

\* a test of the probe (models.RTTResult)
PingResult(method, success, rtt, loss) ==
    [Method |-> method, Success |-> success, RTT |-> rtt, PacketLoss |-> loss]

\* what TestPodConnectivity can return for a pair: an error, or the results
\* of a forward ping, a reverse ping and, for some targets, an HTTP request
ProbeOutcomes ==
    {[err |-> TRUE, RTTResults |-> <<>>],
     [err |-> FALSE, RTTResults |-> <<PingResult("ping", FALSE, 0, 100),
                                      PingResult("ping_reverse", FALSE, 0, 100)>>],
     [err |-> FALSE, RTTResults |-> <<PingResult("ping", TRUE, 20, 0),
                                      PingResult("ping_reverse", TRUE, 40, 0)>>],
     [err |-> FALSE, RTTResults |-> <<PingResult("ping", FALSE, 0, 100),
                                      PingResult("ping_reverse", TRUE, 1200, 50)>>],
     [err |-> FALSE, RTTResults |-> <<PingResult("ping", TRUE, 600, 0),
                                      PingResult("ping_reverse", TRUE, 600, 0),
                                      PingResult("http", TRUE, 50, 0)>>]}

\* a record that sets no error although every test failed
testPodPairNoError(pair, clientNil, probe) ==
    [SourcePod |-> pair.SourcePod, TargetPod |-> pair.TargetPod, Connected |-> FALSE,
     RTT |-> 0, PacketLoss |-> 0, Error |-> "", TestMethod |-> "mixed"]

\* testPodPair, lines 209-270: the record of one pair
testPodPair(pair, clientNil, probe) ==
    LET metric == [SourcePod |-> pair.SourcePod, TargetPod |-> pair.TargetPod,
                   Connected |-> FALSE, RTT |-> 0, PacketLoss |-> 0,
                   Error |-> "", TestMethod |-> "mixed"]
        stats == calculateStats(probe.RTTResults)
        pings == SelectSeq(probe.RTTResults, LAMBDA x : x.Method = "ping" /\ x.Success)
        https == SelectSeq(probe.RTTResults, LAMBDA x : x.Method = "http" /\ x.Success)
    IN IF clientNil THEN [metric EXCEPT !.Error = "K8s client not available"]
       ELSE IF probe.err THEN [metric EXCEPT !.Error = "connectivity test failed"]
       ELSE IF stats.SuccessRate > 0
         THEN [metric EXCEPT
                 !.Connected = TRUE,
                 !.RTT = IF Len(https) > 0 THEN https[1].RTT ELSE stats.AverageRTT,
                 !.PacketLoss = IF Len(pings) > 0 THEN pings[1].PacketLoss ELSE 0,
                 !.TestMethod = IF Len(https) > 0 THEN "http"
                                ELSE IF Len(pings) > 0 THEN "ping" ELSE "mixed"]
       ELSE [metric EXCEPT !.Error = "all tests failed"]

\* NetworkMetrics.GetQuality
GetQuality(n) ==
    IF ~n.Connected THEN "disconnected"
    ELSE IF n.RTT < 100 THEN "excellent"
    ELSE IF n.RTT < 500 THEN "good"
    ELSE IF n.RTT < 1000 THEN "fair"
    ELSE "poor"

\* CollectNetworkMetrics, lines 66-78: the selection; without pairs the call
\* returns the empty list
SelectPairs ==
    /\ fout.pc = "select"
    /\ LET pairs == selectPodPairs(fin.enableAutoTest, fin.pods, fin.maxPodPairs)
       IN fout' = [fout EXCEPT !.pc = IF Len(pairs) = 0 THEN "done" ELSE "test",
                               !.podPairs = pairs,
                               !.pending = 1..Len(pairs)]
    /\ UNCHANGED <<managerVars, ingestVars, schedVars, watchVars, fin>>

\* lines 89-101 and 110-114: the test of one pair completes and its record
\* is received from resultsChan
TestCompletes ==
    /\ fout.pc = "test"
    /\ \E i \in fout.pending, probe \in ProbeOutcomes :
         fout' = [fout EXCEPT
                    !.pending = @ \ {i},
                    !.results = Append(@, testPodPair(fout.podPairs[i],
                                                      fin.k8sClientNil, probe))]
    /\ UNCHANGED <<managerVars, ingestVars, schedVars, watchVars, fin>>

\* lines 104-117: every test is done, resultsChan is closed, the call returns
CollectNetworkReturn ==
    /\ fout.pc = "test"
    /\ fout.pending = {}
    /\ fout' = [fout EXCEPT !.pc = "done"]
    /\ UNCHANGED <<managerVars, ingestVars, schedVars, watchVars, fin>>

\* SpecNetwork: one CollectNetworkMetrics call over every cluster of up to
\* MaxPods workloads and every maximum up to MaxPairs
InitNetwork ==
    /\ InitManager({"node", "pod"}, {1})
    /\ InitIngest(FALSE, TRUE, EmptyMap)
    /\ InitScheduler(EmptyMap)
    /\ InitWatcher
    /\ \E n \in 0..MaxPods :
         \E pods \in [1..n -> UNION {ClusterPods(i) : i \in 1..MaxPods}] :
            /\ \A i \in 1..n : pods[i].Name = i
            /\ fin \in [enableAutoTest : BOOLEAN, maxPodPairs : 1..MaxPairs,
                        k8sClientNil : BOOLEAN, pods : {pods}]
    /\ fout = [pc |-> "select", podPairs |-> <<>>, pending |-> {}, results |-> <<>>]

NextNetwork ==
    \/ SelectPairs
    \/ TestCompletes
    \/ CollectNetworkReturn

SpecNetwork == InitNetwork /\ [][NextNetwork]_vars

\* the listed workloads that are running and have an address
EligiblePods == {i \in 1..Len(fin.pods) : fin.pods[i].Phase = "Running" /\ fin.pods[i].IP # ""}

\* the number of unordered pairs of n things
PairCount(n) == (n * (n - 1)) \div 2

\* C26 (as the claim states it): with automatic selection on, the selected
\* pairs are pairs of two distinct eligible workloads, no pair on one node
\* precedes a pair on two nodes, and their number is the smaller of the
\* maximum and the number of unordered pairs of eligible workloads (none, and
\* no error, with fewer than two eligible workloads).
C26_PairSelection ==
    (fout.pc # "select" /\ fin.enableAutoTest) =>
        /\ \A k \in 1..Len(fout.podPairs) :
              /\ fout.podPairs[k].SourcePod \in EligiblePods
              /\ fout.podPairs[k].TargetPod \in EligiblePods
              /\ fout.podPairs[k].SourcePod # fout.podPairs[k].TargetPod
        /\ \A k \in 1..Len(fout.podPairs), l \in 1..Len(fout.podPairs) :
              (k < l /\ fout.podPairs[l].CrossNode) => fout.podPairs[k].CrossNode
        /\ Len(fout.podPairs) =
              (IF fin.maxPodPairs < PairCount(Cardinality(EligiblePods))
                 THEN fin.maxPodPairs ELSE PairCount(Cardinality(EligiblePods)))

\* C27: every record the network source has produced with connected = false
\* has round-trip time 0, a non-empty error string and quality "disconnected".
C27_DisconnectedRecord ==
    \A k \in 1..Len(fout.results) :
        ~fout.results[k].Connected =>
            /\ fout.results[k].RTT = 0
            /\ fout.results[k].Error # ""
            /\ GetQuality(fout.results[k]) = "disconnected"

\* a call has produced a record for a probe that returned an error and one
\* for a probe all of whose tests failed
C27_Witness ==
    /\ \E k \in 1..Len(fout.results) :
          ~fout.results[k].Connected /\ fout.results[k].Error = "connectivity test failed"
    /\ \E k \in 1..Len(fout.results) :
          ~fout.results[k].Connected /\ fout.results[k].Error = "all tests failed"

\* ------------------------------------------ the uav pull and the clock of
\* the published snapshots

\* the Collect call of c publishes and leaves its critical section
Publishes(c) == col[c].pc = "unlock" /\ col'[c].pc = "ret"

\* C28 (as the claim states it): when a Collect cycle whose uav pull returned
\* an error has published, the uav map holds no entry whose source is the pull.
C28_FailedPullLeavesNoPullEntry ==
    [][\A c \in Collectors :
          (Publishes(c) /\ col[c].uavMetrics.isNil) =>
              \A n \in DOMAIN uavSnapshot' : uavSnapshot'[n].source # "pull"]_vars

\* SpecManual: a running manager with the node source, and a caller of the
\* exported Collect while the loop runs its cycles
InitManual ==
    /\ InitManager({"node"}, {1})
    /\ InitIngest(TRUE, TRUE, EmptyMap)
    /\ InitScheduler(EmptyMap)
    /\ InitWatcher
    /\ InitCalls

NextManual ==
    \/ LoopStep("s1")
    \/ NodeCollectStep("s1")
    \/ ManualCollect("m1")
    \/ NodeCollectStep("m1")

SpecManual == InitManual /\ [][NextManual]_vars

\* C29 (as the claim states it): a publication stores the snapshot of a
\* Collect call, stamped with the time at which that call started, and the
\* timestamp of the cached snapshot does not decrease.
C29_TimestampIsStartAndMonotonic ==
    [][snapshot' # snapshot =>
          /\ \E c \in Collectors :
                col[c].pc = "swap" /\ snapshot'.Timestamp = col[c].snap.Timestamp
          /\ snapshot'.Timestamp >= snapshot.Timestamp]_vars

\* C30: whenever the lock is free, every node of the uav map has an entry in
\* the heartbeat map, equal to the last_heartbeat of the node's uav entry.
C30_HeartbeatMatchesUAVEntry ==
    snapshotMutex = "free" =>
        \A n \in DOMAIN uavSnapshot :
            /\ n \in DOMAIN uavLastHeartbeat
            /\ uavLastHeartbeat[n] = uavSnapshot[n].last_heartbeat

\* the lock is free and the uav map holds an entry of the pull and an entry
\* of a report, stamped at different times
C30_Witness ==
    /\ snapshotMutex = "free"
    /\ \E n \in DOMAIN uavSnapshot, k \in DOMAIN uavSnapshot :
          /\ uavSnapshot[n].source = "pull"
          /\ uavSnapshot[k].source = "agent"
          /\ uavSnapshot[n].last_heartbeat # uavSnapshot[k].last_heartbeat

\* ------------------------------------------ the registry of the instance
\* streams (cw.crdWatchers)

\* C31 (as the claim states it, the exclusion): at no time are two tasks
\* inside an operation on the registry, and no access has met another one.
C31_RegistryAccessExclusive ==
    /\ Cardinality(InWatchersWrite) <= 1
    /\ ~wfatal

\* the instance loop s is started in this step
Spawned(s) == wpc[s] = "unspawned" /\ wpc'[s] # "unspawned"

\* C32 (as the claim states it): an instance loop is started by the
\* definition watch only for a definition that is established.
C32_SpawnOnlyEstablished ==
    [][\A s \in CustomStreams : Spawned(s) => wdef'[KindOf(s)] = "established"]_vars

\* the instance loop s calls Watch in this step
OpenAttempt(s) == wpc[s] = "open" /\ wpc'[s] # "open"

\* C33 (as the claim states it): while the definition of a custom kind is
\* deleted and not added again, the registry holds no entry for the kind and
\* no instance loop of the kind tries to open a stream.
C33_DeletedStaysStopped ==
    [][\A s \in CustomStreams :
          (wdef[KindOf(s)] = "absent" /\ wdef'[KindOf(s)] = "absent") =>
              /\ wreg'[KindOf(s)] = "none"
              /\ ~OpenAttempt(s)]_vars

\* ---------------------------------------- the events of an instance stream
\* crd_watcher.go, doWatchCustomResource lines 255-293: what the instance
\* loop of a custom kind does with each event of its stream.  fin holds the
\* events the server delivers, fout the loop's cache of the kind, its
\* OnCRDEvent calls, and whether the conversion has panicked (no goroutine
\* recovers, so the process ends).

\* the objects an instance event can carry: unstructured objects with and
\* without spec and status, and an object of another type
InstanceObjects ==
    {[kind |-> "Unstructured", name |-> "i1",
      spec |-> MapOf([size |-> 1]), status |-> MapOf([phase |-> "Ready"])],
     [kind |-> "Unstructured", name |-> "i2",
      spec |-> MapOf([size |-> 2]), status |-> NilMap],
     [kind |-> "Unstructured", name |-> "i3",
      spec |-> NilMap, status |-> MapOf([phase |-> "Ready"])],
     [kind |-> "Status", name |-> "", spec |-> NilMap, status |-> NilMap]}

InstanceEvents == [Type : {"ADDED", "MODIFIED", "DELETED"}, Object : InstanceObjects]

\* getStatusFromObject: the status map, or a new empty map
getStatusFromObject(obj) == IF obj.status.isNil THEN EmptyMap ELSE obj.status.m

\* convertUnstructuredToCustomResource, lines 328-341: obj.Object["spec"] is asserted to be
\* a map with the one-value form, which panics on a missing spec
convertUnstructuredToCustomResource(obj) ==
    [panics |-> obj.spec.isNil,
     Name |-> obj.name,
     Spec |-> IF obj.spec.isNil THEN EmptyMap ELSE obj.spec.m,
     Status |-> getStatusFromObject(obj)]

\* updateCustomResourceCache, lines 353-384, on the resources of one key
updateCustomResourceCache(resources, resource, eventType) ==
    LET same == {i \in 1..Len(resources) : resources[i].Name = resource.Name}
        first == CHOOSE i \in same : \A j \in same : i <= j
    IN CASE eventType \in {"ADDED", "MODIFIED"} ->
              IF same = {} THEN Append(resources, resource)
              ELSE [resources EXCEPT ![first] = resource]
         [] eventType = "DELETED" ->
              IF same = {} THEN resources
              ELSE SubSeq(resources, 1, first - 1)
                     \o SubSeq(resources, first + 1, Len(resources))
         [] OTHER -> resources

\* doWatchCustomResource, lines 259-293: the loop receives its next event
InstanceStreamEvent ==
    /\ ~fout.panicked
    /\ fin.next <= Len(fin.events)
    /\ fin' = [fin EXCEPT !.next = @ + 1]
    /\ LET event == fin.events[fin.next]
           resource == convertUnstructuredToCustomResource(event.Object)
       IN fout' =
            IF event.Object.kind # "Unstructured" THEN fout
            ELSE IF resource.panics THEN [fout EXCEPT !.panicked = TRUE]
            ELSE [fout EXCEPT
                    !.cache = updateCustomResourceCache(@, resource, event.Type),
                    !.calls = Append(@, [Type |-> event.Type, Name |-> resource.Name,
                                         Spec |-> resource.Spec,
                                         Status |-> resource.Status])]
    /\ UNCHANGED <<managerVars, ingestVars, schedVars, watchVars>>

\* SpecInstances: one instance stream that delivers up to MaxEvents events
InitInstances ==
    /\ InitManager({"node", "pod"}, {1})
    /\ InitIngest(FALSE, TRUE, EmptyMap)
    /\ InitScheduler(EmptyMap)
    /\ InitWatcher
    /\ fin \in [events : SeqsUpTo(InstanceEvents, MaxEvents), next : {1}]
    /\ fout = [cache |-> <<>>, calls |-> <<>>, panicked |-> FALSE]

SpecInstances == InitInstances /\ [][InstanceStreamEvent]_vars

\* the OnCRDEvent call the claim has for an instance event: one for every
\* unstructured object, with an empty map for a missing spec or status
InstanceCallFor(e) ==
    IF e.Object.kind # "Unstructured" THEN <<>>
    ELSE <<[Type |-> e.Type, Name |-> e.Object.name,
            Spec |-> IF e.Object.spec.isNil THEN EmptyMap ELSE e.Object.spec.m,
            Status |-> IF e.Object.status.isNil THEN EmptyMap ELSE e.Object.status.m]>>

RECURSIVE InstanceCallsFor(_)
InstanceCallsFor(events) ==
    IF events = <<>> THEN <<>>
    ELSE InstanceCallFor(Head(events)) \o InstanceCallsFor(Tail(events))

\* C34 (as the claim states it, the instance streams): no received object
\* ends the loop, an object of another type causes no call, and every
\* unstructured object received so far has been dispatched to OnCRDEvent,
\* with an empty spec or status where the object has none.
C34_NoObjectEndsTheStream ==
    /\ ~fout.panicked
    /\ fout.calls = InstanceCallsFor(SubSeq(fin.events, 1, fin.next - 1))

\* ------------------------------------------------ the probes of one cycle
\* part_007, CollectNetworkMetrics lines 82-120, at the grain of its
\* goroutines: the caller starts one task per selected pair, a closer waits
\* for all of them and closes resultsChan, the caller receives until the
\* channel is closed.  fin holds the number of selected pairs, fout the
\* caller's position, the tasks, the semaphore, the channel and the results.

MaxProbes == 4

\* make(chan struct{}, 3)
SemaphoreSlots == 3

\* the pair selected at place i
ProbedPair(i) ==
    [SourcePod |-> i, SourceIP |-> "ip", TargetPod |-> i + 1, TargetIP |-> "ip",
     CrossNode |-> TRUE]

\* what the probe of pair i returns: an error (also when its context is
\* cancelled or times out) for the first pair if fin says so, three
\* successful tests otherwise
ProbeReturns(i) ==
    IF i = 1 /\ fin.firstFails
    THEN {p \in ProbeOutcomes : p.err}
    ELSE {p \in ProbeOutcomes : ~p.err /\ Len(p.RTTResults) = 3}

ProbeVars == <<managerVars, ingestVars, schedVars, watchVars, fin>>

\* lines 90-92: wg.Add(1) and the go statement for the next pair
SpawnProbe ==
    /\ fout.pc = "spawn"
    /\ fout.spawned < fin.pairs
    /\ fout' = [fout EXCEPT !.spawned = @ + 1,
                            !.task = [@ EXCEPT ![fout.spawned + 1] = "acquire"]]
    /\ UNCHANGED ProbeVars

\* lines 104-107: the loop is over, the closer is started
StartCloser ==
    /\ fout.pc = "spawn"
    /\ fout.spawned = fin.pairs
    /\ fout' = [fout EXCEPT !.pc = "collect"]
    /\ UNCHANGED ProbeVars

\* a task that takes a slot whether or not one is free
TaskAcquireUnbounded(i) ==
    /\ fout.task[i] = "acquire"
    /\ fout' = [fout EXCEPT !.task = [@ EXCEPT ![i] = "testing"],
                            !.semaphore = @ + 1]
    /\ UNCHANGED ProbeVars

\* line 96: semaphore <- struct{}{} blocks while the channel is full
TaskAcquire(i) ==
    /\ fout.task[i] = "acquire"
    /\ fout.semaphore < SemaphoreSlots
    /\ fout' = [fout EXCEPT !.task = [@ EXCEPT ![i] = "testing"],
                            !.semaphore = @ + 1]
    /\ UNCHANGED ProbeVars

\* lines 100-101: the probe returns and its record is sent; resultsChan has
\* room for one record per pair, so the send does not block
TaskTest(i) ==
    /\ fout.task[i] = "testing"
    /\ \E probe \in ProbeReturns(i) :
         fout' = [fout EXCEPT
                    !.task = [@ EXCEPT ![i] = "exit"],
                    !.resultsChan = Append(@, testPodPair(ProbedPair(i), FALSE, probe))]
    /\ UNCHANGED ProbeVars

\* a task that ends without giving its slot back
TaskExitKeepSlot(i) ==
    /\ fout.task[i] = "exit"
    /\ fout' = [fout EXCEPT !.task = [@ EXCEPT ![i] = "done"]]
    /\ UNCHANGED ProbeVars

\* the deferred calls, lines 97 and 93: <-semaphore, then wg.Done()
TaskExit(i) ==
    /\ fout.task[i] = "exit"
    /\ fout' = [fout EXCEPT !.task = [@ EXCEPT ![i] = "done"],
                            !.semaphore = @ - 1]
    /\ UNCHANGED ProbeVars

\* lines 105-106: wg.Wait() returns when every task has called Done
CloseResults ==
    /\ fout.pc # "spawn"
    /\ fout.closes = 0
    /\ \A i \in 1..fin.pairs : fout.task[i] = "done"
    /\ fout' = [fout EXCEPT !.closes = @ + 1]
    /\ UNCHANGED ProbeVars

\* lines 110-114: the caller receives a record
ReceiveResult ==
    /\ fout.pc = "collect"
    /\ fout.resultsChan # <<>>
    /\ fout' = [fout EXCEPT !.resultsChan = Tail(@),
                            !.results = Append(@, Head(fout.resultsChan))]
    /\ UNCHANGED ProbeVars

\* lines 110 and 116-117: the channel is closed and empty, the call returns
ReceiveClosed ==
    /\ fout.pc = "collect"
    /\ fout.resultsChan = <<>>
    /\ fout.closes > 0
    /\ fout' = [fout EXCEPT !.pc = "done"]
    /\ UNCHANGED ProbeVars

\* SpecProbes: the probes of one CollectNetworkMetrics call that has a
\* client and has selected between one and MaxProbes pairs, the probe of the
\* first of them failing or not
InitProbes ==
    /\ InitManager({"node", "pod"}, {1})
    /\ InitIngest(FALSE, TRUE, EmptyMap)
    /\ InitScheduler(EmptyMap)
    /\ InitWatcher
    /\ fin \in [pairs : 1..MaxProbes, firstFails : BOOLEAN]
    /\ fout = [pc |-> "spawn", spawned |-> 0,
               task |-> [i \in 1..MaxProbes |-> "unspawned"],
               semaphore |-> 0, resultsChan |-> <<>>, closes |-> 0, results |-> <<>>]

NextProbes ==
    \/ SpawnProbe
    \/ StartCloser
    \/ \E i \in 1..MaxProbes : TaskAcquire(i)
    \/ \E i \in 1..MaxProbes : TaskTest(i)
    \/ \E i \in 1..MaxProbes : TaskExit(i)
    \/ CloseResults
    \/ ReceiveResult
    \/ ReceiveClosed

SpecProbes == InitProbes /\ [][NextProbes]_vars

\* the Go scheduler runs every goroutine that can take a step, and a probe
\* returns within its timeout
SpecProbesFair == SpecProbes /\ WF_vars(NextProbes)

\* the tasks whose probe is executing
Executing == {i \in 1..MaxProbes : fout.task[i] = "testing"}

\* C35: at no time are more than three probes executing.
C35_AtMostThreeProbes == Cardinality(Executing) <= SemaphoreSlots

\* three probes are executing and a fourth task waits for a slot
C35_Witness ==
    /\ Cardinality(Executing) = SemaphoreSlots
    /\ \E i \in 1..MaxProbes : fout.task[i] = "acquire"

\* the returned list has exactly one record for each selected pair
OneRecordPerPair ==
    /\ Len(fout.results) = fin.pairs
    /\ \A i \in 1..fin.pairs :
          \E k \in 1..Len(fout.results) : fout.results[k].SourcePod = i

\* C36: the call returns; and when it has returned, no task is blocked, the
\* results channel was closed once, and the list holds one record per pair.
C36_CollectTerminates ==
    /\ <>(fout.pc = "done")
    /\ [](fout.pc = "done" =>
            /\ \A i \in 1..fin.pairs : fout.task[i] = "done"
            /\ fout.closes = 1
            /\ OneRecordPerPair)

\* a call with more pairs than slots has returned, one of its records being
\* that of a probe that failed
C36_Witness ==
    /\ fout.pc = "done"
    /\ fin.pairs > SemaphoreSlots
    /\ \E k \in 1..Len(fout.results) :
          ~fout.results[k].Connected /\ fout.results[k].Error # ""

\* ------------------------------------------------ the health of the rollup
\* part_006, calculateClusterMetrics lines 493-565, for the node metrics of
\* one snapshot: fin is the list of the snapshot's node metrics, fout the
\* cluster rollup derived from it.  Collect derives it on a fresh rollup
\* (line 286), whose rates are zero until a total is positive.

MaxNodes == 3

\* capacities and usages are in units of one hundredth of a node
NodeMetricsUniverse ==
    [Healthy : BOOLEAN, CPUCapacity : {100}, CPUUsage : {80, 90, 100},
     MemoryCapacity : {100}, MemoryUsage : {80, 100}]

RECURSIVE SumOver(_, _)
\* the sum of field f over a list of node metrics (lines 521-525)
SumOver(nodes, f) ==
    IF nodes = <<>> THEN 0 ELSE f[Head(nodes)] + SumOver(Tail(nodes), f)

\* float64(used) / float64(total) * 100.0 > percent, the rate staying zero
\* while the total is zero (lines 536-541); the quotients at the thresholds
\* are exact in float64
RateAbove(used, total, percent) == total > 0 /\ used * 100 > percent * total

\* Go's integer division of non-negative operands
IntDiv(a, b) == a \div b

\* lines 497-564: the node counts, the totals, the issues and the health
calculateClusterHealth(nodes) ==
    LET total == Len(nodes)
        healthy == Cardinality({i \in 1..total : nodes[i].Healthy})
        usedCPU == SumOver(nodes, [n \in NodeMetricsUniverse |-> n.CPUUsage])
        totalCPU == SumOver(nodes, [n \in NodeMetricsUniverse |-> n.CPUCapacity])
        usedMem == SumOver(nodes, [n \in NodeMetricsUniverse |-> n.MemoryUsage])
        totalMem == SumOver(nodes, [n \in NodeMetricsUniverse |-> n.MemoryCapacity])
        issues == (IF healthy < total THEN <<"nodes are unhealthy">> ELSE <<>>)
                  \o (IF RateAbove(usedCPU, totalCPU, 80) THEN <<"High CPU usage">> ELSE <<>>)
                  \o (IF RateAbove(usedMem, totalMem, 80) THEN <<"High memory usage">> ELSE <<>>)
    IN  [TotalNodes |-> total, HealthyNodes |-> healthy,
         TotalCPU |-> totalCPU, UsedCPU |-> usedCPU,
         TotalMemory |-> totalMem, UsedMemory |-> usedMem,
         Issues |-> issues,
         HealthStatus |->
            IF Len(issues) = 0 THEN "healthy"
            ELSE IF \/ RateAbove(usedCPU, totalCPU, 90)
                    \/ RateAbove(usedMem, totalMem, 90)
                    \/ healthy < IntDiv(total, 2)
                 THEN "critical"
                 ELSE "warning"]

\* line 286: Collect derives the rollup of the snapshot it composed
DeriveRollup ==
    /\ ~fout.derived
    /\ fout' = [derived |-> TRUE, cluster |-> calculateClusterHealth(fin)]
    /\ UNCHANGED <<managerVars, ingestVars, schedVars, watchVars, fin>>

\* SpecHealth: one rollup derived from up to MaxNodes node metrics
InitHealth ==
    /\ InitManager({"node", "pod"}, {1})
    /\ InitIngest(FALSE, TRUE, EmptyMap)
    /\ InitScheduler(EmptyMap)
    /\ InitWatcher
    /\ fin \in SeqsUpTo(NodeMetricsUniverse, MaxNodes)
    /\ fout = [derived |-> FALSE, cluster |-> calculateClusterHealth(<<>>)]

SpecHealth == InitHealth /\ [][DeriveRollup]_vars

\* the claim's three conditions on the node metrics of a snapshot
NoIssue(nodes) ==
    /\ \A i \in 1..Len(nodes) : nodes[i].Healthy
    /\ ~RateAbove(fout.cluster.UsedCPU, fout.cluster.TotalCPU, 80)
    /\ ~RateAbove(fout.cluster.UsedMemory, fout.cluster.TotalMemory, 80)

FewerThanHalfHealthy(nodes) ==
    2 * Cardinality({i \in 1..Len(nodes) : nodes[i].Healthy}) < Len(nodes)

CriticalCase(nodes) ==
    /\ ~NoIssue(nodes)
    /\ \/ RateAbove(fout.cluster.UsedCPU, fout.cluster.TotalCPU, 90)
       \/ RateAbove(fout.cluster.UsedMemory, fout.cluster.TotalMemory, 90)
       \/ FewerThanHalfHealthy(nodes)

\* C37: the derived health is healthy exactly when there is no issue,
\* critical exactly when there is an issue and a rate is above 90% or fewer
\* than half of the nodes are healthy, and warning in every other case.
C37_HealthOfTheRollup ==
    fout.derived =>
        /\ fout.cluster.HealthStatus = "healthy" <=> NoIssue(fin)
        /\ fout.cluster.HealthStatus = "critical" <=> CriticalCase(fin)
        /\ fout.cluster.HealthStatus = "warning" <=>
              (~NoIssue(fin) /\ ~CriticalCase(fin))

\* ------------------------------------------------ repeated Stop, restart

\* C38 (as the claim states it): a Stop call issued while a Start loop is
\* running returns success or the not-running error, and never closes a stop
\* channel that is already closed.
C38_StopsReturnNormally ==
    [][(Stop /\ \E s \in Starters : ActiveLoop(s)) =>
          /\ stopRet' \in {"nil", "notRunning"}
          /\ ~crashed'
          /\ stopChan = "closed" => stopRet' = "notRunning"]_vars

\* SpecRestart: a first Start call s1 that is ended by Stop, then a second
\* Start call s2 of the same manager that nobody stops and whose context
\* nobody cancels

\* Stop calls, issued during the first run only
StopFirstRun == ActiveLoop("s1") /\ Stop

\* the second Start call is issued after the first has returned
SecondRunStep ==
    /\ pc["s1"] = "returned"
    /\ LoopStep("s2") \/ SelectStop("s2")

InitRestart ==
    /\ InitManager({"node"}, {1})
    /\ InitIngest(TRUE, TRUE, EmptyMap)
    /\ InitScheduler(EmptyMap)
    /\ InitWatcher
    /\ InitCalls

NextRestart ==
    \/ pc["s1"] # "returned" /\ (LoopStep("s1") \/ SelectStop("s1"))
    \/ StopFirstRun
    \/ SecondRunStep
    \/ \E c \in Starters : NodeCollectStep(c)

SpecRestart == InitRestart /\ [][NextRestart]_vars

\* C39 (as the claim states it): the Start call issued after a run that Stop
\* ended makes its initial collection and then stays in its loop, where it
\* collects on the ticks; without a Stop or a cancellation it never returns.
C39_RestartKeepsCollecting ==
    [][/\ pc["s2"] = "initCollect" => pc'["s2"] \in {"initCollect", "initCollecting"}
       /\ pc["s2"] = "select" => pc'["s2"] \in {"select", "tickCollecting"}]_vars

\* ------------------------------------------------ the heartbeat over time

\* the reports of an agent for node N1: one without a timestamp, which
\* UpdateUAVReport stamps with its own clock, and one that carries the time
\* at which the agent read the state, before the manager was constructed
StampedReports ==
    {MkReport(N1, <<"u", "1">>, ZeroTime, StateOf(80)),
     MkReport(N1, <<"u", "1">>, 1, StateOf(80))}

\* a direct call of UpdateUAVReport with one of these reports
StampedReportStep(r) ==
    \/ \E report \in StampedReports : CallUpdateUAVReport(r, report)
    \/ ReportLock(r)
    \/ ReportStore(r)
    \/ ReportHeartbeat(r)
    \/ ReportUnlock(r)

\* SpecHeartbeat: a running manager whose source is the uav pull, and an
\* agent that pushes reports with and without a timestamp
NextHeartbeat ==
    \/ LoopStep("s1")
    \/ UAVCollectStep("s1")
    \/ StampedReportStep("r1")

SpecHeartbeat == InitUAV /\ [][NextHeartbeat]_vars

\* C40 (as the claim states it): the recorded heartbeat of a node never
\* decreases, whether a report or a pull writes it.
C40_HeartbeatNeverDecreases ==
    [][\A n \in DOMAIN uavLastHeartbeat \cap DOMAIN uavLastHeartbeat' :
          uavLastHeartbeat'[n] >= uavLastHeartbeat[n]]_vars

====
